---- MODULE Spec2Model ----
(***************************************************************************)
(* Request resolution and resilience layer of the Slack MCP server.        *)
(*                                                                         *)
(*   SpecGateway : one call of SlackAPIClient.searchMessages or            *)
(*                 SlackAPIClient.conversationsReplies (retry loop, error  *)
(*                 classification, backoff, logging).                      *)
(*   SpecGatewayLive : SpecGateway with every upstream request settling    *)
(*                 and every timer firing.                                 *)
(*   SpecSearch  : one call of SearchService.searchMessages (validation,   *)
(*                 channel-name resolution, fan-out, merge).               *)
(*   SpecThread  : one call of SearchService.getThreadReplies (validation, *)
(*                 one upstream page, mapping, ordering, metrics).         *)
(*   SpecMetrics : MetricsService under arbitrary sequences of recordings. *)
(*   SpecThreadFaulty : SpecThread with a LoggingService call throwing.    *)
(*   SpecChannelName : one call of SlackAPIClient.channelName.             *)
(*   SpecStartup : McpServer.startServer over the environments it can find.*)
(*   SpecConcurrent : several search and thread requests in flight on one  *)
(*                 LoggingService, interleaved at their awaits.            *)
(*                                                                         *)
(* Strings the code only inspects with includes() are modelled as the set  *)
(* of fragments they contain; strings the code parses or trims are         *)
(* modelled as sequences of characters.                                    *)
(***************************************************************************)
EXTENDS Integers, Sequences, FiniteSets, TLC

VARIABLES
    gwPc,            \* position of the gateway call: idle / inflight / waiting / done
    gwOp,            \* "search" (executeSearchWithRetry) or "replies" (conversationsReplies)
    attempt,         \* loop variable `attempt` of the retry loop
    upstreamCalls,   \* number of upstream requests issued by this call
    outcome,         \* upstream outcome of the most recent finished attempt
    handled,         \* per finished attempt: the branch of the handlers that dealt with it
    pending,         \* while waiting: the delay being awaited and the log written after it
    waits,           \* delays (ms) awaited in full so far
    events,          \* LoggingService calls made by the gateway, in order
    rateLimitEvents, \* MetricsService.stats.rateLimitEvents
    gwResult,        \* what the call returned or threw
    svcPc,           \* position of SearchService.searchMessages
    options,         \* the SearchOptions of the request
    lookupCalls,     \* channel ids passed to slackClient.channelName, in call order
    lookups,         \* settled state of each channel-name lookup (Promise.allSettled)
    searchCalls,     \* SlackSearchOptions passed to slackClient.searchMessages, in call order
    responses,       \* settled state of each upstream search
    svcEvents,       \* LoggingService calls made by the search service, in order
    svcResult,       \* what searchMessages returned or threw
    thrPc,           \* position of SearchService.getThreadReplies: idle / fetching / done
    thrReq,          \* the arguments of the getThreadReplies call
    thrCalls,        \* arguments passed to slackClient.conversationsReplies, in call order
    thrPage,         \* what slackClient.conversationsReplies settled with
    thrEvents,       \* LoggingService calls made by getThreadReplies, in order
    thrResult,       \* what getThreadReplies returned or threw
    stats,           \* MetricsService.stats
    requests,        \* requests in flight on the one LoggingService: position and events emitted
    lookup,          \* one SlackAPIClient.channelName call: position, argument, calls, logs, result
    server           \* McpServer: position of startServer, steps run, tools, transport, result

gwVars == <<gwPc, gwOp, attempt, upstreamCalls, outcome, handled, pending, waits,
            events, rateLimitEvents, gwResult>>

svcVars == <<svcPc, options, lookupCalls, lookups, searchCalls, responses, svcEvents,
             svcResult>>

thrVars == <<thrPc, thrReq, thrCalls, thrPage, thrEvents, thrResult>>

metVars == <<stats, requests, lookup, server>>

vars == <<gwVars, svcVars, thrVars, metVars>>

None == "none"

(***************************************************************************)
(* Program constants of SlackAPIClient                                     *)
(***************************************************************************)
MAX_RETRIES == 3
BASE_DELAY_MS == 1000
EXPONENTIAL_BACKOFF_BASE == 2
MILLISECONDS_PER_SECOND == 1000
HTTP_STATUS_TOO_MANY_REQUESTS == 429
DECIMAL_RADIX == 10

ERROR_CODE_RATELIMITED == "ratelimited"
ERROR_CODE_RATE_LIMITED == "rate_limited"
ERROR_CODE_INVALID_AUTH == "invalid_auth"
ERROR_CODE_INVALID_TOKEN == "invalid_token"
ERROR_CODE_ACCOUNT_INACTIVE == "account_inactive"
ERROR_CODE_TOKEN_REVOKED == "token_revoked"
ERROR_CODE_ECONNREFUSED == "ECONNREFUSED"
ERROR_CODE_ETIMEDOUT == "ETIMEDOUT"
ERROR_CODE_ENOTFOUND == "ENOTFOUND"
ERROR_CODE_ECONNRESET == "ECONNRESET"
ERROR_MESSAGE_TIMEOUT == "timeout"

\* Fixed texts of the errors the gateway creates itself.
MSG_RATE_LIMIT_EXHAUSTED == "msg:rate limit reached, retry ceiling reached"
MSG_AUTH_FAILED == "msg:authentication failed"
MSG_CALL_FAILED == "msg:api call failed"
MSG_CONNECTION_FAILED == "msg:connection failed"

(***************************************************************************)
(* Text inspected with String.prototype.includes: a set of fragments.      *)
(* A fragment contains itself; "request_timeout" also contains "timeout",  *)
(* "ratelimited" contains "ratelimit", and the retry-ceiling message       *)
(* contains the words for "rate limit".                                    *)
(***************************************************************************)
Contained(fragment) ==
    IF fragment = "request_timeout" THEN {"request_timeout", ERROR_MESSAGE_TIMEOUT}
    ELSE IF fragment = "ratelimited" THEN {"ratelimited", "ratelimit"}
    ELSE IF fragment = MSG_RATE_LIMIT_EXHAUSTED
    THEN {fragment, "msg:rate limit"}
    ELSE {fragment}

includes(text, pattern) == \E f \in text : pattern \in Contained(f)

(***************************************************************************)
(* Number.parseInt(String(v), 10) on a string given as its characters:     *)
(* leading blanks skipped, optional sign, then the longest digit prefix.   *)
(* NaN is modelled as the record field nan = TRUE.                         *)
(***************************************************************************)
DigitValue(c) ==
    CASE c = "0" -> 0 [] c = "1" -> 1 [] c = "2" -> 2 [] c = "3" -> 3 [] c = "4" -> 4
      [] c = "5" -> 5 [] c = "6" -> 6 [] c = "7" -> 7 [] c = "8" -> 8 [] c = "9" -> 9
      [] OTHER -> -1

IsDigit(c) == DigitValue(c) >= 0

RECURSIVE DigitPrefixLen(_)
DigitPrefixLen(s) ==
    IF s = <<>> \/ ~IsDigit(Head(s)) THEN 0 ELSE 1 + DigitPrefixLen(Tail(s))

RECURSIVE DigitsToNat(_, _)
DigitsToNat(s, acc) ==
    IF s = <<>> \/ ~IsDigit(Head(s)) THEN acc
    ELSE DigitsToNat(Tail(s), acc * DECIMAL_RADIX + DigitValue(Head(s)))

RECURSIVE SkipBlanks(_)
SkipBlanks(s) == IF s # <<>> /\ Head(s) = " " THEN SkipBlanks(Tail(s)) ELSE s

parseInt(s) ==
    LET t == SkipBlanks(s)
        neg == t # <<>> /\ Head(t) = "-"
        u == IF t # <<>> /\ Head(t) \in {"-", "+"} THEN Tail(t) ELSE t
    IN  IF DigitPrefixLen(u) = 0 THEN [nan |-> TRUE, value |-> 0]
        ELSE [nan |-> FALSE,
              value |-> IF neg THEN 0 - DigitsToNat(u, 0) ELSE DigitsToNat(u, 0)]

RECURSIVE Pow(_, _)
Pow(b, e) == IF e = 0 THEN 1 ELSE b * Pow(b, e - 1)

(***************************************************************************)
(* Upstream outcomes of one attempt.                                       *)
(***************************************************************************)
NoStatus == 0
NoError == "no_error"
NoCode == "no_code"

\* headers['retry-after']: absent, a string, or an array of strings.
Absent == [kind |-> "absent", val |-> <<>>]
HeaderString(s) == [kind |-> "string", val |-> s]
HeaderArray(a) == [kind |-> "array", val |-> a]

RetryAfterHeaders ==
    { Absent,
      HeaderString(<<>>),
      HeaderString(<<"0">>),
      HeaderString(<<"2">>),
      HeaderString(<<"3", "0">>),
      HeaderString(<<"a", "b", "c">>),
      HeaderArray(<<<<"5">>>>) }

Response(ok, error, statusCode, retryAfter) ==
    [form |-> "response", ok |-> ok, error |-> error, statusCode |-> statusCode,
     retryAfter |-> retryAfter, message |-> {}, code |-> NoCode]

Thrown(message, code, statusCode) ==
    [form |-> "thrown", ok |-> FALSE, error |-> NoError, statusCode |-> statusCode,
     retryAfter |-> Absent, message |-> message, code |-> code]

NoOutcome ==
    [form |-> "none", ok |-> FALSE, error |-> NoError, statusCode |-> NoStatus,
     retryAfter |-> Absent, message |-> {}, code |-> NoCode]

AuthCodes == {ERROR_CODE_INVALID_AUTH, ERROR_CODE_INVALID_TOKEN,
              ERROR_CODE_ACCOUNT_INACTIVE, ERROR_CODE_TOKEN_REVOKED}

ResponseOutcomes ==
    { Response(TRUE, NoError, NoStatus, Absent),
      Response(TRUE, NoError, 200, Absent),
      Response(FALSE, NoError, NoStatus, Absent),
      Response(FALSE, NoError, HTTP_STATUS_TOO_MANY_REQUESTS, Absent),
      Response(FALSE, ERROR_CODE_RATELIMITED, NoStatus, Absent),
      Response(FALSE, ERROR_CODE_RATE_LIMITED, NoStatus, Absent),
      Response(FALSE, ERROR_CODE_INVALID_AUTH, HTTP_STATUS_TOO_MANY_REQUESTS, Absent),
      Response(FALSE, "channel_not_found", NoStatus, Absent),
      Response(FALSE, "request_timeout", NoStatus, Absent) }
    \cup { Response(FALSE, ERROR_CODE_RATELIMITED, HTTP_STATUS_TOO_MANY_REQUESTS, h) :
             h \in RetryAfterHeaders }
    \cup { Response(FALSE, c, NoStatus, Absent) : c \in AuthCodes }

ConnectionCodes == {ERROR_CODE_ECONNREFUSED, ERROR_CODE_ETIMEDOUT,
                    ERROR_CODE_ENOTFOUND, ERROR_CODE_ECONNRESET}

ThrownOutcomes ==
    { Thrown({"other"}, NoCode, NoStatus),
      Thrown({"other"}, NoCode, HTTP_STATUS_TOO_MANY_REQUESTS),
      Thrown({"other"}, "slack_webapi_platform_error", NoStatus),
      Thrown({ERROR_CODE_RATELIMITED}, NoCode, HTTP_STATUS_TOO_MANY_REQUESTS),
      Thrown({ERROR_CODE_RATELIMITED}, NoCode, NoStatus),
      Thrown({ERROR_CODE_RATE_LIMITED}, NoCode, NoStatus),
      Thrown({ERROR_MESSAGE_TIMEOUT}, NoCode, NoStatus),
      Thrown({ERROR_CODE_ECONNRESET}, "slack_webapi_request_error", NoStatus),
      Thrown({ERROR_CODE_INVALID_AUTH}, NoCode, HTTP_STATUS_TOO_MANY_REQUESTS),
      Thrown({ERROR_CODE_INVALID_AUTH, ERROR_MESSAGE_TIMEOUT}, NoCode, NoStatus),
      Thrown({ERROR_CODE_TOKEN_REVOKED}, ERROR_CODE_ECONNREFUSED, NoStatus),
      Thrown({ERROR_CODE_RATELIMITED, ERROR_MESSAGE_TIMEOUT}, NoCode, NoStatus) }
    \cup { Thrown({"other"}, c, NoStatus) : c \in ConnectionCodes }
    \cup { Thrown({c}, NoCode, NoStatus) :
             c \in {ERROR_CODE_ECONNREFUSED, ERROR_CODE_ETIMEDOUT, ERROR_CODE_ENOTFOUND} }
    \cup { Thrown({c}, NoCode, NoStatus) : c \in AuthCodes }

(***************************************************************************)
(* Errors travelling through the handlers                                  *)
(***************************************************************************)
RateLimitError(delayMs) ==
    [type |-> "RateLimitError", delayMs |-> delayMs, message |-> {},
     code |-> NoCode, statusCode |-> NoStatus]

PlainError(message) ==
    [type |-> "Error", delayMs |-> 0, message |-> message,
     code |-> NoCode, statusCode |-> NoStatus]

UpstreamError(o) ==
    [type |-> "Error", delayMs |-> 0, message |-> o.message,
     code |-> o.code, statusCode |-> o.statusCode]

NoErrorValue == PlainError({})

LogEvent(kind, retryAttempt) == [kind |-> kind, retryAttempt |-> retryAttempt]

(***************************************************************************)
(* Classification predicates                                               *)
(***************************************************************************)
isRateLimitError(apiResult) ==
    /\ ~apiResult.ok
    /\ \/ apiResult.error = ERROR_CODE_RATELIMITED
       \/ apiResult.error = ERROR_CODE_RATE_LIMITED
       \/ apiResult.statusCode = HTTP_STATUS_TOO_MANY_REQUESTS

isAuthenticationError(apiResult) ==
    /\ ~apiResult.ok
    /\ \/ apiResult.error = ERROR_CODE_INVALID_AUTH
       \/ apiResult.error = ERROR_CODE_INVALID_TOKEN
       \/ apiResult.error = ERROR_CODE_ACCOUNT_INACTIVE
       \/ apiResult.error = ERROR_CODE_TOKEN_REVOKED

isConnectionError(error) ==
    \/ error.code = ERROR_CODE_ECONNREFUSED
    \/ error.code = ERROR_CODE_ETIMEDOUT
    \/ error.code = ERROR_CODE_ENOTFOUND
    \/ error.code = ERROR_CODE_ECONNRESET
    \/ includes(error.message, ERROR_MESSAGE_TIMEOUT)
    \/ includes(error.message, ERROR_CODE_ECONNREFUSED)
    \/ includes(error.message, ERROR_CODE_ETIMEDOUT)
    \/ includes(error.message, ERROR_CODE_ENOTFOUND)

\* isAuthenticationErrorMessage with one credential code forgotten
isAuthenticationErrorMessage_NoAccountInactive(errorMessage) ==
    \/ includes(errorMessage, ERROR_CODE_INVALID_AUTH)
    \/ includes(errorMessage, ERROR_CODE_INVALID_TOKEN)
    \/ includes(errorMessage, ERROR_CODE_TOKEN_REVOKED)

isAuthenticationErrorMessage(errorMessage) ==
    \/ includes(errorMessage, ERROR_CODE_INVALID_AUTH)
    \/ includes(errorMessage, ERROR_CODE_INVALID_TOKEN)
    \/ includes(errorMessage, ERROR_CODE_ACCOUNT_INACTIVE)
    \/ includes(errorMessage, ERROR_CODE_TOKEN_REVOKED)

isRateLimitErrorMessage(errorMessage, statusCode) ==
    \/ includes(errorMessage, ERROR_CODE_RATELIMITED)
    \/ includes(errorMessage, ERROR_CODE_RATE_LIMITED)
    \/ statusCode = HTTP_STATUS_TOO_MANY_REQUESTS

(***************************************************************************)
(* Delays                                                                  *)
(***************************************************************************)
waitWithExponentialBackoff(n) == BASE_DELAY_MS * Pow(EXPONENTIAL_BACKOFF_BASE, n)

calculateRetryDelayMs(retryAfterHeader, n) ==
    LET retryAfterValue ==
            IF retryAfterHeader.kind = "array"
            THEN (IF Len(retryAfterHeader.val) > 0
                  THEN HeaderString(retryAfterHeader.val[1]) ELSE Absent)
            ELSE retryAfterHeader
        truthyValue == retryAfterValue.kind = "string" /\ retryAfterValue.val # <<>>
        parsed == parseInt(retryAfterValue.val)
        hasSeconds == truthyValue /\ ~parsed.nan
        \* `retryAfterSeconds ? ... : ...` : undefined and 0 are both falsy
        useHeader == hasSeconds /\ parsed.value # 0
    IN  IF useHeader
        THEN parsed.value * MILLISECONDS_PER_SECOND
        ELSE BASE_DELAY_MS * Pow(EXPONENTIAL_BACKOFF_BASE, n)

(***************************************************************************)
(* handleSearchResponse(searchResult, attempt): either returns normally    *)
(* (threw = FALSE) or throws `error`; `logs` are the logging calls made.   *)
(***************************************************************************)
handleSearchResponse(searchResult, n) ==
    IF isRateLimitError(searchResult)
    THEN IF n >= MAX_RETRIES
         THEN [threw |-> TRUE,
               error |-> PlainError({MSG_RATE_LIMIT_EXHAUSTED}),
               logs |-> <<LogEvent("RATE_LIMIT_ERROR", n + 1)>>]
         ELSE [threw |-> TRUE,
               error |-> RateLimitError(calculateRetryDelayMs(searchResult.retryAfter, n)),
               logs |-> <<LogEvent("RATE_LIMIT_ERROR", n + 1)>>]
    ELSE IF isAuthenticationError(searchResult)
    THEN [threw |-> TRUE,
          error |-> PlainError({MSG_AUTH_FAILED, searchResult.error}),
          logs |-> <<LogEvent("AUTH_ERROR", 0)>>]
    ELSE IF ~searchResult.ok /\ searchResult.error # NoError
    THEN [threw |-> TRUE,
          error |-> PlainError({MSG_CALL_FAILED, searchResult.error}),
          logs |-> <<LogEvent("API_ERROR", 0)>>]
    ELSE [threw |-> FALSE, error |-> NoErrorValue, logs |-> <<>>]

(***************************************************************************)
(* handleSearchError(error, attempt): retry = TRUE means "return true      *)
(* after awaiting delayMs and then writing logsAfterWait"; otherwise the   *)
(* handler throws `error` after writing `logs`.  `branch` names the        *)
(* branch of the handler that was taken.                                   *)
(***************************************************************************)
Retry(branch, delayMs, logsAfterWait) ==
    [retry |-> TRUE, branch |-> branch, delayMs |-> delayMs, logs |-> <<>>,
     logsAfterWait |-> logsAfterWait, error |-> NoErrorValue]

Throw(branch, error, logs) ==
    [retry |-> FALSE, branch |-> branch, delayMs |-> 0, logs |-> logs,
     logsAfterWait |-> <<>>, error |-> error]

\* handleSearchError with the retry ceiling of the connectivity branch off by one
handleSearchError_EarlyCeiling(error, n) ==
    IF error.type = "RateLimitError"
    THEN IF n < MAX_RETRIES
         THEN Retry("ratelimit", error.delayMs, <<>>)
         ELSE Throw("ratelimit", PlainError({"msg:rate limit error"}), <<>>)
    ELSE IF isAuthenticationErrorMessage(error.message)
    THEN Throw("authentication",
               PlainError({MSG_AUTH_FAILED} \cup error.message),
               <<LogEvent("AUTH_ERROR", 0)>>)
    ELSE IF isConnectionError(error)
    THEN IF n >= MAX_RETRIES - 1
         THEN Throw("connectivity",
                    PlainError({MSG_CONNECTION_FAILED} \cup error.message),
                    <<LogEvent("API_ERROR", 0)>>)
         ELSE Retry("connectivity", waitWithExponentialBackoff(n),
                    <<LogEvent("ERROR", 0)>>)
    ELSE IF isRateLimitErrorMessage(error.message, error.statusCode) /\ n < MAX_RETRIES
    THEN Retry("ratelimit", waitWithExponentialBackoff(n),
               <<LogEvent("RATE_LIMIT_ERROR", n + 1)>>)
    ELSE Throw(IF isRateLimitErrorMessage(error.message, error.statusCode)
               THEN "ratelimit" ELSE "other",
               PlainError({MSG_CALL_FAILED} \cup error.message), <<>>)

handleSearchError(error, n) ==
    IF error.type = "RateLimitError"
    THEN IF n < MAX_RETRIES
         THEN Retry("ratelimit", error.delayMs, <<>>)
         ELSE Throw("ratelimit", PlainError({"msg:rate limit error"}), <<>>)
    ELSE IF isAuthenticationErrorMessage(error.message)
    THEN Throw("authentication",
               PlainError({MSG_AUTH_FAILED} \cup error.message),
               <<LogEvent("AUTH_ERROR", 0)>>)
    ELSE IF isConnectionError(error)
    THEN IF n >= MAX_RETRIES
         THEN Throw("connectivity",
                    PlainError({MSG_CONNECTION_FAILED} \cup error.message),
                    <<LogEvent("API_ERROR", 0)>>)
         ELSE Retry("connectivity", waitWithExponentialBackoff(n),
                    <<LogEvent("ERROR", 0)>>)
    ELSE IF isRateLimitErrorMessage(error.message, error.statusCode) /\ n < MAX_RETRIES
    THEN Retry("ratelimit", waitWithExponentialBackoff(n),
               <<LogEvent("RATE_LIMIT_ERROR", n + 1)>>)
    ELSE Throw(IF isRateLimitErrorMessage(error.message, error.statusCode)
               THEN "ratelimit" ELSE "other",
               PlainError({MSG_CALL_FAILED} \cup error.message), <<>>)

\* Number of rate-limit log calls in a sequence of logging calls
\* (LoggingService.logRateLimitError calls MetricsService.recordRateLimitEvent).
RECURSIVE CountRateLimit(_)
CountRateLimit(logs) ==
    IF logs = <<>> THEN 0
    ELSE (IF Head(logs).kind = "RATE_LIMIT_ERROR" THEN 1 ELSE 0) + CountRateLimit(Tail(logs))

NoPending == [delayMs |-> 0, logsAfterWait |-> <<>>]
NoResult == [status |-> "none", isSuccess |-> FALSE, message |-> {}]
Returned(o) == [status |-> "returned", isSuccess |-> o.ok, message |-> {}]
Failed(error) == [status |-> "thrown", isSuccess |-> FALSE, message |-> error.message]

(***************************************************************************)
(* Gateway actions                                                         *)
(***************************************************************************)
GatewayInit ==
    /\ gwPc = "idle"
    /\ gwOp = None
    /\ attempt = 0
    /\ upstreamCalls = 0
    /\ outcome = NoOutcome
    /\ handled = <<>>
    /\ pending = NoPending
    /\ waits = <<>>
    /\ events = <<>>
    /\ rateLimitEvents = 0
    /\ gwResult = NoResult
    /\ lookup = [pc |-> "idle", channelId |-> "", upstreamCalls |-> 0, waits |-> 0,
                 outcome |-> NoOutcome, events |-> <<>>, result |-> NoResult,
                 name |-> ""]

\* searchMessages / conversationsReplies is called on an initialised client:
\* the loop starts with attempt = 0 and issues the first upstream request.
StartCall(op) ==
    /\ gwPc = "idle"
    /\ gwPc' = "inflight"
    /\ gwOp' = op
    /\ attempt' = 0
    /\ upstreamCalls' = upstreamCalls + 1
    /\ UNCHANGED <<outcome, handled, pending, waits, events, rateLimitEvents, gwResult>>
    /\ UNCHANGED <<svcVars, thrVars, metVars>>

\* Settle with a delay promise that is never resolved: a retry parks the call
Settle_TimerNeverSet(o, thrownByResponseHandler, firstLogs, error) ==
    IF ~thrownByResponseHandler
    THEN /\ gwPc' = "done"
         /\ gwResult' = Returned(o)
         /\ handled' = Append(handled, "success")
         /\ events' = events \o firstLogs
         /\ rateLimitEvents' = rateLimitEvents + CountRateLimit(firstLogs)
         /\ UNCHANGED <<pending, attempt>>
    ELSE LET h == handleSearchError(error, attempt)
             logs == firstLogs \o h.logs
         IN  /\ handled' = Append(handled, h.branch)
             /\ events' = events \o logs
             /\ rateLimitEvents' = rateLimitEvents + CountRateLimit(logs)
             /\ UNCHANGED attempt
             /\ IF h.retry
                THEN /\ gwPc' = "parked"
                     /\ pending' = [delayMs |-> h.delayMs, logsAfterWait |-> h.logsAfterWait]
                     /\ UNCHANGED gwResult
                ELSE /\ gwPc' = "done"
                     /\ gwResult' = Failed(h.error)
                     /\ UNCHANGED pending

\* Everything the loop body does from the moment the upstream request
\* settles with outcome o until it returns, throws or starts a timer.
Settle(o, thrownByResponseHandler, firstLogs, error) ==
    IF ~thrownByResponseHandler
    THEN /\ gwPc' = "done"
         /\ gwResult' = Returned(o)
         /\ handled' = Append(handled, "success")
         /\ events' = events \o firstLogs
         /\ rateLimitEvents' = rateLimitEvents + CountRateLimit(firstLogs)
         /\ UNCHANGED <<pending, attempt>>
    ELSE LET h == handleSearchError(error, attempt)
             logs == firstLogs \o h.logs
         IN  /\ handled' = Append(handled, h.branch)
             /\ events' = events \o logs
             /\ rateLimitEvents' = rateLimitEvents + CountRateLimit(logs)
             /\ UNCHANGED attempt
             /\ IF h.retry
                THEN /\ gwPc' = "waiting"
                     /\ pending' = [delayMs |-> h.delayMs, logsAfterWait |-> h.logsAfterWait]
                     /\ UNCHANGED gwResult
                ELSE /\ gwPc' = "done"
                     /\ gwResult' = Failed(h.error)
                     /\ UNCHANGED pending

\* The upstream request resolves with a response envelope.
AttemptReturns(o) ==
    /\ gwPc = "inflight"
    /\ attempt <= MAX_RETRIES
    /\ outcome' = o
    /\ LET r == handleSearchResponse(o, attempt)
       IN  Settle(o, r.threw, r.logs, r.error)
    /\ UNCHANGED <<gwOp, upstreamCalls, waits>>
    /\ UNCHANGED <<svcVars, thrVars, metVars>>

\* The upstream request rejects with an exception.
AttemptThrows(o) ==
    /\ gwPc = "inflight"
    /\ attempt <= MAX_RETRIES
    /\ outcome' = o
    /\ Settle(o, TRUE, <<>>, UpstreamError(o))
    /\ UNCHANGED <<gwOp, upstreamCalls, waits>>
    /\ UNCHANGED <<svcVars, thrVars, metVars>>

\* WaitElapsed with the timer started but not awaited: the next attempt
\* begins while the delay is still running
WaitElapsed_NotAwaited ==
    /\ gwPc = "waiting"
    /\ waits' = waits
    /\ events' = events \o pending.logsAfterWait
    /\ rateLimitEvents' = rateLimitEvents + CountRateLimit(pending.logsAfterWait)
    /\ pending' = NoPending
    /\ attempt' = attempt + 1
    /\ IF attempt + 1 <= MAX_RETRIES
       THEN /\ gwPc' = "inflight"
            /\ upstreamCalls' = upstreamCalls + 1
            /\ UNCHANGED gwResult
       ELSE /\ gwPc' = "done"
            /\ gwResult' = Failed(PlainError({MSG_CALL_FAILED}))
            /\ UNCHANGED upstreamCalls
    /\ UNCHANGED <<gwOp, outcome, handled>>
    /\ UNCHANGED <<svcVars, thrVars, metVars>>

\* The timer fires: the handler writes its log, returns true, the loop
\* increments attempt and issues the next upstream request.
WaitElapsed ==
    /\ gwPc = "waiting"
    /\ waits' = Append(waits, pending.delayMs)
    /\ events' = events \o pending.logsAfterWait
    /\ rateLimitEvents' = rateLimitEvents + CountRateLimit(pending.logsAfterWait)
    /\ pending' = NoPending
    /\ attempt' = attempt + 1
    /\ IF attempt + 1 <= MAX_RETRIES
       THEN /\ gwPc' = "inflight"
            /\ upstreamCalls' = upstreamCalls + 1
            /\ UNCHANGED gwResult
       ELSE /\ gwPc' = "done"
            /\ gwResult' = Failed(PlainError({MSG_CALL_FAILED}))
            /\ UNCHANGED upstreamCalls
    /\ UNCHANGED <<gwOp, outcome, handled>>
    /\ UNCHANGED <<svcVars, thrVars, metVars>>

GatewayNext ==
    \/ \E op \in {"search", "replies"} : StartCall(op)
    \/ \E o \in ResponseOutcomes : AttemptReturns(o)
    \/ \E o \in ThrownOutcomes : AttemptThrows(o)
    \/ WaitElapsed

(***************************************************************************)
(* MetricsService                                                          *)
(***************************************************************************)
PERCENTAGE_MULTIPLIER == 100
DECIMAL_PLACES == 2
DECIMAL_ROUNDING_FACTOR == Pow(10, DECIMAL_PLACES)

MaxRequests == 34
MaxLatencies == 2
MaxEvents == 2

\* Date.now() differences seen by the callers of recordLatency
LatencySamples == {0, 12}

NoStats ==
    [totalRequests |-> 0, successfulRequests |-> 0, failedRequests |-> 0,
     latencies |-> <<>>, rateLimitEvents |-> 0, paginationEvents |-> 0]

recordSuccess(st) ==
    [st EXCEPT !.totalRequests = @ + 1, !.successfulRequests = @ + 1]

\* recordFailure without the increment of totalRequests
recordFailure_TotalForgotten(st) == [st EXCEPT !.failedRequests = @ + 1]

recordFailure(st) ==
    [st EXCEPT !.totalRequests = @ + 1, !.failedRequests = @ + 1]

recordLatency(st, latencyMs) == [st EXCEPT !.latencies = Append(@, latencyMs)]

recordRateLimitEvent(st) == [st EXCEPT !.rateLimitEvents = @ + 1]

recordPaginationEvent(st) == [st EXCEPT !.paginationEvents = @ + 1]

\* Math.round(x) for x = num / den >= 0: floor(x + 1/2)
MathRound(num, den) == (2 * num + den) \div (2 * den)

\* calculateSuccessRate that cuts the third decimal off instead of rounding
calculateSuccessRate_Truncating(st) ==
    IF st.totalRequests = 0 THEN 0
    ELSE (st.successfulRequests * PERCENTAGE_MULTIPLIER * DECIMAL_ROUNDING_FACTOR)
             \div st.totalRequests

\* calculateSuccessRate().  The result has at most DECIMAL_PLACES decimals
\* and is represented by its numerator over DECIMAL_ROUNDING_FACTOR
\* (1438 stands for 14.38).
calculateSuccessRate(st) ==
    IF st.totalRequests = 0 THEN 0
    ELSE MathRound(st.successfulRequests * PERCENTAGE_MULTIPLIER * DECIMAL_ROUNDING_FACTOR,
                   st.totalRequests)

getStats(st) ==
    [totalRequests |-> st.totalRequests,
     successfulRequests |-> st.successfulRequests,
     failedRequests |-> st.failedRequests,
     successRate |-> calculateSuccessRate(st),
     rateLimitEvents |-> st.rateLimitEvents,
     paginationEvents |-> st.paginationEvents]

(***************************************************************************)
(*                          SearchService                                  *)
(***************************************************************************)
DEFAULT_MESSAGE_SCORE == 0

\* Bound on the number of channel identifiers of one request.
MaxChannels == 2

\* String.prototype.trim on a string given as its characters.
RECURSIVE DropTrailingBlanks(_)
DropTrailingBlanks(s) ==
    IF s # <<>> /\ s[Len(s)] = " " THEN DropTrailingBlanks(SubSeq(s, 1, Len(s) - 1)) ELSE s

trim(s) == DropTrailingBlanks(SkipBlanks(s))

\* IsBlank without the trim: only the empty string counts as blank
IsBlank_EmptyOnly(s) == s = <<>>

\* `!s || s.trim() === ''`
IsBlank(s) == s = <<>> \/ trim(s) = <<>>

\* Optional values: `undefined` or a value
Undefined == [def |-> FALSE, val |-> 0]
Some(v) == [def |-> TRUE, val |-> v]

Queries == { <<>>, <<" ", " ">>, <<"d">>, <<" ", "d", " ", "e", " ">> }
ChannelIdPool == { <<>>, <<" ">>, <<"C1">>, <<"C2">> }
ChannelNamePool == { <<"eng">>, <<"ops">> }
MaxResultCounts == { Undefined, Some(1) }
TeamIds == { "undefined", "T1" }

SeqsUpTo(S, n) == UNION { [1..k -> S] : k \in 0..n }

ChannelIdLists ==
    { [def |-> FALSE, ids |-> <<>>] }
    \cup { [def |-> TRUE, ids |-> l] : l \in SeqsUpTo(ChannelIdPool, MaxChannels) }

SearchOptionsSet ==
    [query : Queries, channelIds : ChannelIdLists,
     maxResultCount : MaxResultCounts, teamId : TeamIds]

NoOptions ==
    [query |-> <<>>, channelIds |-> [def |-> FALSE, ids |-> <<>>],
     maxResultCount |-> Undefined, teamId |-> "undefined"]

\* Upstream search envelopes as SearchService receives them from ISlackClient.
Match(text, score) == [text |-> text, score |-> score]
NoPaging == [def |-> FALSE, pageNumber |-> 0, totalPageCount |-> 0]
Paging(p, n) == [def |-> TRUE, pageNumber |-> p, totalPageCount |-> n]

SearchResponse(isSuccess, error, hasMessages, matchesIsArray, matches, total, paging) ==
    [kind |-> "response", isSuccess |-> isSuccess, error |-> error,
     hasMessages |-> hasMessages, matchesIsArray |-> matchesIsArray,
     matches |-> matches, totalResultCount |-> total, paging |-> paging]

SearchThrows ==
    [kind |-> "thrown", isSuccess |-> FALSE, error |-> NoError,
     hasMessages |-> FALSE, matchesIsArray |-> FALSE,
     matches |-> <<>>, totalResultCount |-> 0, paging |-> NoPaging]

PendingResponse == [SearchThrows EXCEPT !.kind = "pending"]

SearchResponses ==
    { SearchThrows,
      SearchResponse(FALSE, NoError, TRUE, TRUE, <<Match("x", Some(9))>>, 1, NoPaging),
      SearchResponse(FALSE, "channel_not_found", FALSE, FALSE, <<>>, 0, NoPaging),
      SearchResponse(TRUE, NoError, TRUE, FALSE, <<>>, 1, NoPaging),
      SearchResponse(TRUE, NoError, FALSE, FALSE, <<>>, 0, NoPaging),
      SearchResponse(TRUE, NoError, TRUE, TRUE, <<>>, 0, NoPaging),
      SearchResponse(TRUE, NoError, TRUE, TRUE,
                     <<Match("a", Undefined), Match("g", Some(0))>>, 2, Paging(1, 1)),
      SearchResponse(TRUE, NoError, TRUE, TRUE,
                     <<Match("b", Some(1)), Match("c", Undefined), Match("e", Some(3))>>,
                     7, Paging(1, 4)) }

\* Settled state of one channel-name lookup
PendingLookup == [status |-> "pending", value |-> <<>>]
Fulfilled(name) == [status |-> "fulfilled", value |-> name]
Rejected == [status |-> "rejected", value |-> <<>>]

LookupResults == { Rejected } \cup { Fulfilled(n) : n \in ChannelNamePool }

slackSearchQueryWithChannel(baseQuery, channelName) ==
    baseQuery \o <<" ", "in:">> \o channelName

\* SlackSearchOptions that forgets to pass the team id on
SlackSearchOptions_NoTeam(query, opts) ==
    [query |-> query, maxResultCount |-> opts.maxResultCount, teamId |-> "undefined"]

SlackSearchOptions(query, opts) ==
    [query |-> query, maxResultCount |-> opts.maxResultCount, teamId |-> opts.teamId]

\* isValidSearchResponse without the isSuccess check
isValidSearchResponse_NoSuccessCheck(response) ==
    /\ response.kind = "response"
    /\ response.hasMessages
    /\ response.matchesIsArray

isValidSearchResponse(response) ==
    /\ response.kind = "response"
    /\ response.isSuccess = TRUE
    /\ response.hasMessages
    /\ response.matchesIsArray

hasMorePages(paging) == paging.def /\ paging.pageNumber < paging.totalPageCount

convertSlackMatchesToMessages(matches) ==
    [i \in 1..Len(matches) |-> [text |-> matches[i].text, score |-> matches[i].score]]

ScoreOf(m) == IF m.score.def THEN m.score.val ELSE DEFAULT_MESSAGE_SCORE

\* Array.prototype.sort with comparator (a, b) => scoreB - scoreA; the sort is stable.
\* An unstable insertion: a message goes before the messages of equal score
RECURSIVE InsertByScore_TiesFirst(_, _)
InsertByScore_TiesFirst(sorted, m) ==
    IF sorted = <<>> THEN <<m>>
    ELSE IF ScoreOf(Head(sorted)) > ScoreOf(m)
         THEN <<Head(sorted)>> \o InsertByScore_TiesFirst(Tail(sorted), m)
         ELSE <<m>> \o sorted

RECURSIVE InsertByScore(_, _)
InsertByScore(sorted, m) ==
    IF sorted = <<>> THEN <<m>>
    ELSE IF ScoreOf(Head(sorted)) >= ScoreOf(m)
         THEN <<Head(sorted)>> \o InsertByScore(Tail(sorted), m)
         ELSE <<m>> \o sorted

RECURSIVE SortByScore(_)
SortByScore(msgs) ==
    IF msgs = <<>> THEN <<>>
    ELSE InsertByScore(SortByScore(SubSeq(msgs, 1, Len(msgs) - 1)), msgs[Len(msgs)])

RECURSIVE FlatMapMatches(_)
FlatMapMatches(rs) ==
    IF rs = <<>> THEN <<>>
    ELSE convertSlackMatchesToMessages(Head(rs).matches) \o FlatMapMatches(Tail(rs))

sortMessagesByScore(rs) == SortByScore(FlatMapMatches(rs))

\* calculateTotalResultCount that counts the matches received instead of
\* adding up the reported totals
RECURSIVE calculateTotalResultCount_Received(_)
calculateTotalResultCount_Received(rs) ==
    IF rs = <<>> THEN 0
    ELSE Len(Head(rs).matches) + calculateTotalResultCount_Received(Tail(rs))

RECURSIVE calculateTotalResultCount(_)
calculateTotalResultCount(rs) ==
    IF rs = <<>> THEN 0
    ELSE Head(rs).totalResultCount + calculateTotalResultCount(Tail(rs))

calculateHasMoreResults(rs, allMessagesLength, maxResultCount) ==
    IF \E i \in 1..Len(rs) : hasMorePages(rs[i].paging) THEN TRUE
    ELSE IF ~maxResultCount.def THEN FALSE
    ELSE allMessagesLength > maxResultCount.val

\* Array.prototype.slice(0, n)
Slice0(s, n) == SubSeq(s, 1, IF n < Len(s) THEN n ELSE Len(s))

NoSvcResult ==
    [status |-> "none", error |-> None, messages |-> <<>>, totalResultCount |-> 0,
     hasMoreResults |-> FALSE]
SvcReturned(messages, total, hasMore) ==
    [status |-> "returned", error |-> None, messages |-> messages,
     totalResultCount |-> total, hasMoreResults |-> hasMore]
SvcThrown(error) ==
    [status |-> "thrown", error |-> error, messages |-> <<>>, totalResultCount |-> 0,
     hasMoreResults |-> FALSE]

mergeAndBuildResult(rs, opts) ==
    LET validResponses == SelectSeq(rs, isValidSearchResponse)
        sortedMessages == sortMessagesByScore(validResponses)
        totalResultCount == calculateTotalResultCount(validResponses)
        hasMoreResults == calculateHasMoreResults(validResponses, Len(sortedMessages),
                                                  opts.maxResultCount)
        \* `options.maxResultCount ? slice : all` : undefined and 0 are both falsy
        truncate == opts.maxResultCount.def /\ opts.maxResultCount.val # 0
    IN  [result |-> SvcReturned(IF truncate
                                THEN Slice0(sortedMessages, opts.maxResultCount.val)
                                ELSE sortedMessages,
                                totalResultCount, hasMoreResults),
         logs |-> <<"SEARCH_SUCCESS">>]

isInvalidChannelError(error) ==
    \/ includes({error}, "channel_not_found")
    \/ includes({error}, "invalid_channel")

\* searchResponseToResult that reads a missing message list as no messages
searchResponseToResult_MissingIsEmpty(searchResponse) ==
    IF searchResponse.isSuccess # TRUE
    THEN [result |-> SvcThrown("invalid response format"), logs |-> <<"ERROR">>]
    ELSE [result |-> SvcReturned(convertSlackMatchesToMessages(searchResponse.matches),
                                 searchResponse.totalResultCount,
                                 hasMorePages(searchResponse.paging)),
          logs |-> <<"SEARCH_SUCCESS">>]

\* searchResponseToResult, including handleSearchResponseError and
\* convertSearchResponseToResult
searchResponseToResult(searchResponse) ==
    IF searchResponse.isSuccess # TRUE
    THEN IF searchResponse.error # NoError
         THEN [result |-> SvcThrown(IF isInvalidChannelError(searchResponse.error)
                                    THEN "invalid channel" ELSE "search failed"),
               logs |-> <<"ERROR">>]
         ELSE [result |-> SvcThrown("invalid response format"), logs |-> <<"ERROR">>]
    ELSE IF ~(searchResponse.hasMessages /\ searchResponse.matchesIsArray)
    THEN [result |-> SvcThrown("invalid response format"), logs |-> <<"ERROR">>]
    ELSE [result |-> SvcReturned(convertSlackMatchesToMessages(searchResponse.matches),
                                 searchResponse.totalResultCount,
                                 hasMorePages(searchResponse.paging)),
          logs |-> <<"SEARCH_SUCCESS">>]

(***************************************************************************)
(* SearchService actions                                                   *)
(***************************************************************************)
SearchInit ==
    /\ svcPc = "idle"
    /\ options = NoOptions
    /\ lookupCalls = <<>>
    /\ lookups = <<>>
    /\ searchCalls = <<>>
    /\ responses = <<>>
    /\ svcEvents = <<>>
    /\ svcResult = NoSvcResult

\* searchInChannels without the unscoped fallback: an empty name list still
\* produces a channel-restricted query
searchInChannels_NoFallback(baseQuery, channelNames, opts) ==
    IF Len(channelNames) = 0
    THEN /\ svcPc' = "single"
         /\ searchCalls' = searchCalls \o
               <<SlackSearchOptions(slackSearchQueryWithChannel(baseQuery, <<>>), opts)>>
         /\ responses' = <<PendingResponse>>
    ELSE /\ svcPc' = "fanout"
         /\ searchCalls' = searchCalls \o
               [i \in 1..Len(channelNames) |->
                   SlackSearchOptions(slackSearchQueryWithChannel(baseQuery, channelNames[i]),
                                      opts)]
         /\ responses' = [i \in 1..Len(channelNames) |-> PendingResponse]

\* searchInChannels(baseQuery, channelNames, options) up to its first await:
\* the upstream searches are issued, none has settled yet.
searchInChannels(baseQuery, channelNames, opts) ==
    IF Len(channelNames) = 0
    THEN /\ svcPc' = "single"
         /\ searchCalls' = searchCalls \o <<SlackSearchOptions(baseQuery, opts)>>
         /\ responses' = <<PendingResponse>>
    ELSE /\ svcPc' = "fanout"
         /\ searchCalls' = searchCalls \o
               [i \in 1..Len(channelNames) |->
                   SlackSearchOptions(slackSearchQueryWithChannel(baseQuery, channelNames[i]),
                                      opts)]
         /\ responses' = [i \in 1..Len(channelNames) |-> PendingResponse]

IsValidId(id) == ~IsBlank(id)

\* searchMessages(options) from entry to its first await (or to its throw).
searchMessages(opts) ==
    /\ svcPc = "idle"
    /\ options' = opts
    /\ IF IsBlank(opts.query)
       THEN /\ svcPc' = "done"
            /\ svcResult' = SvcThrown("empty query")
            /\ UNCHANGED <<lookupCalls, lookups, searchCalls, responses, svcEvents>>
       ELSE IF opts.channelIds.def /\ SelectSeq(opts.channelIds.ids, IsBlank) # <<>>
       THEN /\ svcPc' = "done"
            /\ svcResult' = SvcThrown("invalid channel id")
            /\ svcEvents' = svcEvents \o <<"ERROR">>
            /\ UNCHANGED <<lookupCalls, lookups, searchCalls, responses>>
       ELSE LET baseQuery == trim(opts.query)
                validChannelIds == SelectSeq(opts.channelIds.ids, IsValidId)
            IN  IF ~opts.channelIds.def \/ Len(opts.channelIds.ids) = 0
                   \/ Len(validChannelIds) = 0
                THEN /\ searchInChannels(baseQuery, <<>>, opts)
                     /\ UNCHANGED <<lookupCalls, lookups, svcEvents, svcResult>>
                ELSE /\ svcPc' = "resolving"
                     /\ lookupCalls' = validChannelIds
                     /\ lookups' = [i \in 1..Len(validChannelIds) |-> PendingLookup]
                     /\ UNCHANGED <<searchCalls, responses, svcEvents, svcResult>>
    /\ UNCHANGED <<gwVars, thrVars, metVars>>

\* Names of the fulfilled lookups, in index order (results.forEach)
RECURSIVE SuccessfulNames(_)
SuccessfulNames(ls) ==
    IF ls = <<>> THEN <<>>
    ELSE (IF Head(ls).status = "fulfilled" THEN <<Head(ls).value>> ELSE <<>>)
         \o SuccessfulNames(Tail(ls))

RECURSIVE RejectionLogs(_)
RejectionLogs(ls) ==
    IF ls = <<>> THEN <<>>
    ELSE (IF Head(ls).status = "rejected" THEN <<"ERROR">> ELSE <<>>)
         \o RejectionLogs(Tail(ls))

\* channelNames that falls back to the identifier of a failed lookup
channelNames_KeepFailed(channelIds, ls) ==
    [i \in 1..Len(ls) |->
        IF ls[i].status = "fulfilled" THEN ls[i].value ELSE channelIds[i]]

\* channelNames(channelIds) after Promise.allSettled has settled with the
\* results ls: the names of the fulfilled lookups, [] when there is none.
channelNames(channelIds, ls) ==
    IF Len(SuccessfulNames(ls)) = 0 THEN <<>> ELSE SuccessfulNames(ls)

\* The MetricsService recordings made by a sequence of LoggingService calls:
\* logSearchRequestSuccess records a success, logSearchRequestFailure a failure
RECURSIVE LoggedStats(_, _)
LoggedStats(st, logs) ==
    IF logs = <<>> THEN st
    ELSE LoggedStats(IF Head(logs) = "SEARCH_SUCCESS" THEN recordSuccess(st)
                     ELSE IF Head(logs) = "SEARCH_FAILURE" THEN recordFailure(st)
                     ELSE st,
                     Tail(logs))

\* One slackClient.channelName promise settles.  When it is the last one,
\* Promise.allSettled resolves: channelNames returns and searchMessages
\* goes on into searchInChannels.
LookupSettles(i, r) ==
    /\ svcPc = "resolving"
    /\ i \in 1..Len(lookups)
    /\ lookups[i].status = "pending"
    /\ LET ls == [lookups EXCEPT ![i] = r]
       IN  /\ lookups' = ls
           /\ IF \E k \in 1..Len(ls) : ls[k].status = "pending"
              THEN UNCHANGED <<svcPc, searchCalls, responses, svcEvents>>
              ELSE /\ svcEvents' = svcEvents \o RejectionLogs(ls)
                   /\ searchInChannels(trim(options.query), channelNames(lookupCalls, ls), options)
    /\ UNCHANGED <<options, lookupCalls, svcResult>>
    /\ UNCHANGED <<gwVars, thrVars, metVars>>

\* SingleSettles whose catch block does not report the request failure when
\* the envelope was rejected by searchResponseToResult
SingleSettles_NoFailureReport(r) ==
    /\ svcPc = "single"
    /\ responses' = <<r>>
    /\ svcPc' = "done"
    /\ LET c == searchResponseToResult(r)
           logs == IF r.kind = "thrown" THEN <<"SEARCH_FAILURE">> ELSE c.logs
       IN  /\ svcResult' = IF r.kind = "thrown" THEN SvcThrown("upstream error") ELSE c.result
           /\ svcEvents' = svcEvents \o logs
           /\ stats' = LoggedStats(stats, logs)
           /\ UNCHANGED <<requests, lookup, server>>
    /\ UNCHANGED <<options, lookupCalls, lookups, searchCalls>>
    /\ UNCHANGED <<gwVars, thrVars>>

\* The upstream search of searchSingleChannel settles.
SingleSettles(r) ==
    /\ svcPc = "single"
    /\ responses' = <<r>>
    /\ svcPc' = "done"
    /\ LET c == searchResponseToResult(r)
           logs == IF r.kind = "thrown" THEN <<"SEARCH_FAILURE">>
                   ELSE c.logs \o (IF c.result.status = "thrown"
                                   THEN <<"SEARCH_FAILURE">> ELSE <<>>)
       IN  /\ svcResult' = IF r.kind = "thrown" THEN SvcThrown("upstream error") ELSE c.result
           /\ svcEvents' = svcEvents \o logs
           /\ stats' = LoggedStats(stats, logs)
           /\ UNCHANGED <<requests, lookup, server>>
    /\ UNCHANGED <<options, lookupCalls, lookups, searchCalls>>
    /\ UNCHANGED <<gwVars, thrVars>>

\* FanoutSettles that merges in completion order: the response that settled
\* last is merged first
FanoutSettles_CompletionOrder(j, r) ==
    /\ svcPc = "fanout"
    /\ j \in 1..Len(responses)
    /\ responses[j].kind = "pending"
    /\ LET rs == [responses EXCEPT ![j] = r]
           caught == IF r.kind = "thrown" THEN <<"ERROR">> ELSE <<>>
       IN  /\ responses' = rs
           /\ IF \E k \in 1..Len(rs) : rs[k].kind = "pending"
              THEN /\ svcEvents' = svcEvents \o caught
                   /\ UNCHANGED <<svcPc, svcResult, stats, requests, lookup, server>>
              ELSE LET m == mergeAndBuildResult(
                                <<r>> \o SubSeq(rs, 1, j - 1) \o SubSeq(rs, j + 1, Len(rs)),
                                options)
                   IN  /\ svcPc' = "done"
                       /\ svcResult' = m.result
                       /\ svcEvents' = svcEvents \o caught \o m.logs
                       /\ stats' = LoggedStats(stats, m.logs)
                       /\ UNCHANGED <<requests, lookup, server>>
    /\ UNCHANGED <<options, lookupCalls, lookups, searchCalls>>
    /\ UNCHANGED <<gwVars, thrVars>>

\* One per-channel search of searchMultipleChannels settles (a rejection is
\* caught, logged and replaced by null).  When it is the last one,
\* Promise.all resolves and mergeAndBuildResult builds the result.
FanoutSettles(j, r) ==
    /\ svcPc = "fanout"
    /\ j \in 1..Len(responses)
    /\ responses[j].kind = "pending"
    /\ LET rs == [responses EXCEPT ![j] = r]
           caught == IF r.kind = "thrown" THEN <<"ERROR">> ELSE <<>>
       IN  /\ responses' = rs
           /\ IF \E k \in 1..Len(rs) : rs[k].kind = "pending"
              THEN /\ svcEvents' = svcEvents \o caught
                   /\ UNCHANGED <<svcPc, svcResult, stats, requests, lookup, server>>
              ELSE LET m == mergeAndBuildResult(rs, options)
                   IN  /\ svcPc' = "done"
                       /\ svcResult' = m.result
                       /\ svcEvents' = svcEvents \o caught \o m.logs
                       /\ stats' = LoggedStats(stats, m.logs)
                       /\ UNCHANGED <<requests, lookup, server>>
    /\ UNCHANGED <<options, lookupCalls, lookups, searchCalls>>
    /\ UNCHANGED <<gwVars, thrVars>>

SearchNext ==
    \/ \E opts \in SearchOptionsSet : searchMessages(opts)
    \/ \E i \in 1..MaxChannels + 1, r \in LookupResults : LookupSettles(i, r)
    \/ \E r \in SearchResponses : SingleSettles(r)
    \/ \E j \in 1..MaxChannels + 1, r \in SearchResponses : FanoutSettles(j, r)

(***************************************************************************)
(* MetricsService: actions                                                 *)
(***************************************************************************)
MetricsInit == stats = NoStats

RecordSuccess ==
    /\ stats.totalRequests < MaxRequests
    /\ stats' = recordSuccess(stats)
    /\ UNCHANGED <<requests, lookup, server>>
    /\ UNCHANGED <<gwVars, svcVars, thrVars>>

RecordFailure ==
    /\ stats.totalRequests < MaxRequests
    /\ stats' = recordFailure(stats)
    /\ UNCHANGED <<requests, lookup, server>>
    /\ UNCHANGED <<gwVars, svcVars, thrVars>>

RecordLatency(latencyMs) ==
    /\ Len(stats.latencies) < MaxLatencies
    /\ stats' = recordLatency(stats, latencyMs)
    /\ UNCHANGED <<requests, lookup, server>>
    /\ UNCHANGED <<gwVars, svcVars, thrVars>>

RecordRateLimitEvent ==
    /\ stats.rateLimitEvents < MaxEvents
    /\ stats' = recordRateLimitEvent(stats)
    /\ UNCHANGED <<requests, lookup, server>>
    /\ UNCHANGED <<gwVars, svcVars, thrVars>>

RecordPaginationEvent ==
    /\ stats.paginationEvents < MaxEvents
    /\ stats' = recordPaginationEvent(stats)
    /\ UNCHANGED <<requests, lookup, server>>
    /\ UNCHANGED <<gwVars, svcVars, thrVars>>

MetricsNext ==
    \/ RecordSuccess
    \/ RecordFailure
    \/ \E latencyMs \in LatencySamples : RecordLatency(latencyMs)
    \/ RecordRateLimitEvent
    \/ RecordPaginationEvent

(***************************************************************************)
(* SearchService.getThreadReplies: inputs                                  *)
(***************************************************************************)
MaxPageLen == 3

NoCursor == [def |-> FALSE, val |-> ""]
Cursor(c) == [def |-> TRUE, val |-> c]

NotEdited == [def |-> FALSE, ts |-> <<>>]
Edited(ts) == [def |-> TRUE, ts |-> ts]

\* One element of ConversationsRepliesResponse.messages as the platform
\* sends it: ts identifies the message within its channel.
SlackThreadMessage(ts, text, subtype, edited) ==
    [ts |-> ts, text |-> text, subtype |-> subtype, edited |-> edited]

ThreadMessagePool ==
    { SlackThreadMessage(<<"1", "0", "0">>, "parent", "undefined", NotEdited),
      SlackThreadMessage(<<"1", "5", "0">>, "edited", "undefined",
                         Edited(<<"1", "6", "0">>)),
      SlackThreadMessage(<<"2", "0", "0">>, "", "message_deleted", NotEdited),
      SlackThreadMessage(<<"9", "9", ".", "5">>, "bot", "bot_message", NotEdited) }

\* Message lists of one page: no timestamp occurs twice
MessageLists ==
    { l \in SeqsUpTo(ThreadMessagePool, MaxPageLen) :
        \A i, j \in 1..Len(l) : i # j => l[i].ts # l[j].ts }

NextCursors == { NoCursor, Cursor(""), Cursor("c1") }

RepliesResponse(messagesIsArray, messages, next_cursor) ==
    [kind |-> "response", messagesIsArray |-> messagesIsArray, messages |-> messages,
     next_cursor |-> next_cursor, error |-> {}]

RepliesThrows(message) ==
    [kind |-> "thrown", messagesIsArray |-> FALSE, messages |-> <<>>,
     next_cursor |-> NoCursor, error |-> message]

NoPage == [RepliesThrows({}) EXCEPT !.kind = "none"]

\* Texts of the errors slackClient.conversationsReplies rejects with
ThreadErrors ==
    { {"other"},
      {MSG_CALL_FAILED, ERROR_CODE_RATELIMITED},
      {MSG_CALL_FAILED, MSG_RATE_LIMIT_EXHAUSTED},
      {MSG_AUTH_FAILED, ERROR_CODE_INVALID_AUTH},
      {MSG_AUTH_FAILED, ERROR_CODE_ACCOUNT_INACTIVE},
      {MSG_AUTH_FAILED, ERROR_CODE_INVALID_TOKEN},
      {MSG_AUTH_FAILED, ERROR_CODE_TOKEN_REVOKED},
      {MSG_CALL_FAILED, "not_in_channel"} }

ThreadPages ==
    { RepliesResponse(TRUE, l, c) : l \in MessageLists, c \in NextCursors }
    \cup { RepliesResponse(FALSE, <<>>, NoCursor) }
    \cup { RepliesThrows(e) : e \in ThreadErrors }

ThreadChannelIds == { <<>>, <<" ">>, <<"C1">> }
ThreadTimestamps ==
    { <<>>, <<" ">>, <<"1", "0", "0">>, <<" ", "1", "0", "0">>, <<"3", "0", "0">> }
ThreadOrders == { "undefined", "oldest", "newest" }
ThreadLimits == { Undefined, Some(2) }
ThreadCursors == { NoCursor, Cursor("c0") }

ThreadRequests ==
    [channelId : ThreadChannelIds, threadTs : ThreadTimestamps, limit : ThreadLimits,
     cursor : ThreadCursors, order : ThreadOrders]

NoThreadRequest ==
    [channelId |-> <<>>, threadTs |-> <<>>, limit |-> Undefined, cursor |-> NoCursor,
     order |-> "undefined"]

(***************************************************************************)
(* SearchService.getThreadReplies: code                                    *)
(***************************************************************************)
\* parseFloat on an unsigned decimal given as its characters: leading blanks
\* skipped, digits, optionally a point and digits; NaN when there is no
\* digit.  The value is kept in tenths (one decimal is read).
parseFloat(s) ==
    LET t == SkipBlanks(s)
        n == DigitPrefixLen(t)
        rest == SubSeq(t, n + 1, Len(t))
        hasFraction == Len(rest) >= 2 /\ rest[1] = "." /\ IsDigit(rest[2])
    IN  IF n = 0 /\ ~hasFraction
        THEN [nan |-> TRUE, val |-> 0]
        ELSE [nan |-> FALSE,
              val |-> DigitsToNat(SubSeq(t, 1, n), 0) * DECIMAL_RADIX
                      + (IF hasFraction THEN DigitValue(rest[2]) ELSE 0)]

\* null is [null |-> TRUE]; seconds are kept in tenths
tryParseSlackTimestamp(slackTimestamp) ==
    IF IsBlank(slackTimestamp) THEN [null |-> TRUE, val |-> 0]
    ELSE LET timestampInSeconds == parseFloat(slackTimestamp)
         IN  IF timestampInSeconds.nan THEN [null |-> TRUE, val |-> 0]
             ELSE [null |-> FALSE, val |-> timestampInSeconds.val]

\* '' is [empty |-> TRUE]; an ISO 8601 text is identified by the
\* milliseconds it denotes.
timestampToISO8601(slackTimestamp) ==
    LET timestampInSeconds == tryParseSlackTimestamp(slackTimestamp)
    IN  IF timestampInSeconds.null THEN [empty |-> TRUE, millis |-> 0]
        ELSE [empty |-> FALSE,
              millis |-> (timestampInSeconds.val * MILLISECONDS_PER_SECOND)
                             \div DECIMAL_RADIX]

NoTimestamp == [def |-> FALSE, val |-> [empty |-> TRUE, millis |-> 0]]

\* mapSlackMessages that never fills editedTimestamp in
mapSlackMessages_NoEditedTimestamp(messages, channelId, threadTs) ==
    [i \in 1..Len(messages) |->
        [text |-> messages[i].text,
         timestamp |-> timestampToISO8601(messages[i].ts),
         ts |-> messages[i].ts,
         channelId |-> channelId,
         threadTs |-> threadTs,
         isEdited |-> messages[i].edited.def,
         editedTimestamp |-> NoTimestamp,
         isDeleted |-> messages[i].subtype = "message_deleted"]]

mapSlackMessages(messages, channelId, threadTs) ==
    [i \in 1..Len(messages) |->
        [text |-> messages[i].text,
         timestamp |-> timestampToISO8601(messages[i].ts),
         ts |-> messages[i].ts,
         channelId |-> channelId,
         threadTs |-> threadTs,
         isEdited |-> messages[i].edited.def,
         editedTimestamp |->
             IF messages[i].edited.def
             THEN [def |-> TRUE, val |-> timestampToISO8601(messages[i].edited.ts)]
             ELSE NoTimestamp,
         isDeleted |-> messages[i].subtype = "message_deleted"]]

\* validateThreadRequest without the threadTs check
validateThreadRequest_ChannelOnly(channelId, threadTs) ==
    IF IsBlank(channelId) THEN "channelId missing" ELSE "ok"

\* validateThreadRequest: the error it throws, "ok" when it returns
validateThreadRequest(channelId, threadTs) ==
    IF IsBlank(channelId) THEN "channelId missing"
    ELSE IF IsBlank(threadTs) THEN "threadTs missing"
    ELSE "ok"

\* Arguments of slackClient.conversationsReplies built by fetchRepliesPage
fetchRepliesPage(channelId, threadTs, limit, cursor) ==
    [channel |-> channelId, ts |-> threadTs, limit |-> limit, cursor |-> cursor]

\* The parent test that compares the timestamps as numbers
IsThreadParent_Numeric(m, threadTs) == parseFloat(m.ts) = parseFloat(threadTs)

\* (m) => m.ts === threadTs
IsThreadParent(m, threadTs) == m.ts = threadTs

\* parseFloat(a.ts) - parseFloat(b.ts); NaN - x is NaN, which sort reads as 0
CompareTs(a, b) ==
    IF parseFloat(a.ts).nan \/ parseFloat(b.ts).nan THEN 0
    ELSE parseFloat(a.ts).val - parseFloat(b.ts).val

\* replies.sort((a, b) => parseFloat(a.ts) - parseFloat(b.ts)); the sort is stable
RECURSIVE InsertByTs(_, _)
InsertByTs(sorted, m) ==
    IF sorted = <<>> THEN <<m>>
    ELSE IF CompareTs(Head(sorted), m) <= 0
         THEN <<Head(sorted)>> \o InsertByTs(Tail(sorted), m)
         ELSE <<m>> \o sorted

RECURSIVE SortByTs(_)
SortByTs(msgs) ==
    IF msgs = <<>> THEN <<>>
    ELSE InsertByTs(SortByTs(SubSeq(msgs, 1, Len(msgs) - 1)), msgs[Len(msgs)])

\* Array.prototype.reverse
Reverse(s) == [i \in 1..Len(s) |-> s[Len(s) + 1 - i]]

\* The ordering step that ignores the order argument
orderReplies_Ignored(replies, order) == SortByTs(replies)

\* sort ascending, then reverse when order === 'newest'
orderReplies(replies, order) ==
    IF order = "newest" THEN Reverse(SortByTs(replies)) ELSE SortByTs(replies)

\* hasMore that only asks whether a cursor field came back
hasMore_FieldPresent(nextCursor) == nextCursor.def

\* !!nextCursor
hasMore(nextCursor) == nextCursor.def /\ nextCursor.val # ""

NoThreadMessage ==
    [text |-> "", timestamp |-> [empty |-> TRUE, millis |-> 0], ts |-> <<>>,
     channelId |-> <<>>, threadTs |-> <<>>, isEdited |-> FALSE,
     editedTimestamp |-> NoTimestamp, isDeleted |-> FALSE]

NoParent == [def |-> FALSE, msg |-> NoThreadMessage]

\* mappedMessages.find((m) => m.ts === threadTs)
RECURSIVE FindParent(_, _)
FindParent(mapped, threadTs) ==
    IF mapped = <<>> THEN NoParent
    ELSE IF IsThreadParent(Head(mapped), threadTs)
         THEN [def |-> TRUE, msg |-> Head(mapped)]
         ELSE FindParent(Tail(mapped), threadTs)

NoThreadResult ==
    [status |-> "none", parent |-> NoParent, replies |-> <<>>, nextCursor |-> NoCursor,
     hasMore |-> FALSE, error |-> {}, validation |-> "ok"]

ThreadReturned(parent, replies, nextCursor, more) ==
    [status |-> "returned", parent |-> parent, replies |-> replies,
     nextCursor |-> nextCursor, hasMore |-> more, error |-> {}, validation |-> "ok"]

ThreadThrown(error, validation) ==
    [NoThreadResult EXCEPT !.status = "thrown", !.error = error, !.validation = validation]

\* recordThreadMetrics reporting pagination for every page
recordThreadMetrics_AlwaysPagination(st, nextCursor, latencyMs) ==
    [stats |-> recordPaginationEvent(recordLatency(recordSuccess(st), latencyMs)),
     logs |-> <<"THREAD_SUCCESS", "THREAD_PAGINATION">>]

\* recordThreadMetrics: logThreadRequestSuccess, then logThreadPagination
\* when nextCursor is truthy
recordThreadMetrics(st, nextCursor, latencyMs) ==
    LET counted == recordLatency(recordSuccess(st), latencyMs)
    IN  IF hasMore(nextCursor)
        THEN [stats |-> recordPaginationEvent(counted),
              logs |-> <<"THREAD_SUCCESS", "THREAD_PAGINATION">>]
        ELSE [stats |-> counted, logs |-> <<"THREAD_SUCCESS">>]

\* The try block of getThreadReplies after the page has arrived
\* The try block of getThreadReplies without the filter that takes the
\* parent out of the replies
ThreadResultOf_ParentKept(req, page, st, latencyMs) ==
    LET slackMessages == IF page.messagesIsArray THEN page.messages ELSE <<>>
        mappedMessages == mapSlackMessages(slackMessages, req.channelId, req.threadTs)
        nextCursor == page.next_cursor
        metrics == recordThreadMetrics(st, nextCursor, latencyMs)
        parent == FindParent(mappedMessages, req.threadTs)
        replies == orderReplies(mappedMessages, req.order)
    IN  [result |-> ThreadReturned(parent, replies, nextCursor, hasMore(nextCursor)),
         stats |-> metrics.stats,
         logs |-> metrics.logs]

ThreadResultOf(req, page, st, latencyMs) ==
    LET slackMessages == IF page.messagesIsArray THEN page.messages ELSE <<>>
        mappedMessages == mapSlackMessages(slackMessages, req.channelId, req.threadTs)
        nextCursor == page.next_cursor
        metrics == recordThreadMetrics(st, nextCursor, latencyMs)
        parent == FindParent(mappedMessages, req.threadTs)
        replies == orderReplies(
                       SelectSeq(mappedMessages,
                                 LAMBDA m : ~IsThreadParent(m, req.threadTs)),
                       req.order)
    IN  [result |-> ThreadReturned(parent, replies, nextCursor, hasMore(nextCursor)),
         stats |-> metrics.stats,
         logs |-> metrics.logs]

\* A catch block that records the failure and then answers with an empty
\* thread instead of re-throwing
ThreadFailureOf_Swallowed(error, st) ==
    [result |-> ThreadReturned(NoParent, <<>>, NoCursor, FALSE),
     stats |-> recordFailure(st),
     logs |-> <<"THREAD_FAILURE", "ERROR">>]

\* The catch block of getThreadReplies
ThreadFailureOf(error, st) ==
    LET rateLimited == \/ includes(error, "msg:rate limit")
                       \/ includes(error, "ratelimit")
                       \/ includes(error, "429")
        authentication == \/ includes(error, "invalid_auth")
                          \/ includes(error, "not_authed")
                          \/ includes(error, "token_revoked")
        notInChannel == includes(error, "not_in_channel")
        st1 == IF rateLimited THEN recordRateLimitEvent(st) ELSE st
    IN  [result |-> ThreadThrown(error, "ok"),
         stats |-> recordFailure(st1),
         logs |-> (IF rateLimited THEN <<"RATE_LIMIT_ERROR">> ELSE <<>>)
                  \o (IF authentication THEN <<"AUTH_ERROR">> ELSE <<>>)
                  \o (IF notInChannel THEN <<"API_ERROR">> ELSE <<>>)
                  \o <<"THREAD_FAILURE", "ERROR">>]

(***************************************************************************)
(* SearchService.getThreadReplies: actions                                 *)
(***************************************************************************)
ThreadInit ==
    /\ thrPc = "idle"
    /\ thrReq = NoThreadRequest
    /\ thrCalls = <<>>
    /\ thrPage = NoPage
    /\ thrEvents = <<>>
    /\ thrResult = NoThreadResult

\* getThreadReplies(req) from entry to its await (or to the validation throw)
getThreadReplies(req) ==
    /\ thrPc = "idle"
    /\ thrReq' = req
    /\ LET checked == validateThreadRequest(req.channelId, req.threadTs)
       IN  IF checked # "ok"
           THEN /\ thrPc' = "done"
                /\ thrResult' = ThreadThrown({}, checked)
                /\ thrEvents' = thrEvents \o <<"ERROR">>
                /\ UNCHANGED thrCalls
           ELSE /\ thrPc' = "fetching"
                /\ thrCalls' = thrCalls \o
                       <<fetchRepliesPage(req.channelId, req.threadTs, req.limit, req.cursor)>>
                /\ UNCHANGED <<thrResult, thrEvents>>
    /\ UNCHANGED <<thrPage, stats, requests, lookup, server>>
    /\ UNCHANGED <<gwVars, svcVars>>

\* RepliesPageSettles that treats a page without message array as a failure
RepliesPageSettles_ArrayRequired(page, latencyMs) ==
    /\ thrPc = "fetching"
    /\ thrPage' = page
    /\ thrPc' = "done"
    /\ LET out == IF page.kind = "thrown" \/ ~page.messagesIsArray
                  THEN ThreadFailureOf(page.error, stats)
                  ELSE ThreadResultOf(thrReq, page, stats, latencyMs)
       IN  /\ thrResult' = out.result
           /\ stats' = out.stats
           /\ UNCHANGED <<requests, lookup, server>>
           /\ thrEvents' = thrEvents \o out.logs
    /\ UNCHANGED <<thrReq, thrCalls>>
    /\ UNCHANGED <<gwVars, svcVars>>

\* slackClient.conversationsReplies settles; getThreadReplies runs to its end.
RepliesPageSettles(page, latencyMs) ==
    /\ thrPc = "fetching"
    /\ thrPage' = page
    /\ thrPc' = "done"
    /\ LET out == IF page.kind = "thrown"
                  THEN ThreadFailureOf(page.error, stats)
                  ELSE ThreadResultOf(thrReq, page, stats, latencyMs)
       IN  /\ thrResult' = out.result
           /\ stats' = out.stats
           /\ UNCHANGED <<requests, lookup, server>>
           /\ thrEvents' = thrEvents \o out.logs
    /\ UNCHANGED <<thrReq, thrCalls>>
    /\ UNCHANGED <<gwVars, svcVars>>

ThreadNext ==
    \/ \E req \in ThreadRequests : getThreadReplies(req)
    \/ \E page \in ThreadPages, latencyMs \in LatencySamples :
          RepliesPageSettles(page, latencyMs)

(***************************************************************************)
(* SearchService.getThreadReplies when a LoggingService call throws        *)
(***************************************************************************)
\* The logging call that throws during one getThreadReplies call:
\*   success    - logThreadRequestSuccess, before anything is recorded
\*   latency    - logThreadRequestSuccess, in recordLatency
\*   pagination - logThreadPagination
\*   category   - the first of logRateLimitError / logAuthenticationError /
\*                logAPIError that the catch block calls
\*   failure    - logThreadRequestFailure
ThreadFaults == {"none", "success", "latency", "pagination", "category", "failure"}

LoggingFailed == {"logging failed"}

\* recordThreadMetrics without its try/catch: the exception of the logging
\* call leaves the method
recordThreadMetricsUnder_Unguarded(fault, st, nextCursor, latencyMs) ==
    IF fault = "success"
    THEN [stats |-> st, logs |-> <<>>, threw |-> TRUE]
    ELSE IF fault = "latency"
    THEN [stats |-> recordSuccess(st), logs |-> <<>>, threw |-> TRUE]
    ELSE IF fault = "pagination" /\ hasMore(nextCursor)
    THEN [stats |-> recordLatency(recordSuccess(st), latencyMs),
          logs |-> <<"THREAD_SUCCESS">>, threw |-> TRUE]
    ELSE [stats |-> recordThreadMetrics(st, nextCursor, latencyMs).stats,
          logs |-> recordThreadMetrics(st, nextCursor, latencyMs).logs,
          threw |-> FALSE]

\* recordThreadMetrics: the try block runs up to the call that throws, the
\* catch block logs the exception with logError
recordThreadMetricsUnder(fault, st, nextCursor, latencyMs) ==
    IF fault = "success"
    THEN [stats |-> st, logs |-> <<"ERROR">>, threw |-> FALSE]
    ELSE IF fault = "latency"
    THEN [stats |-> recordSuccess(st), logs |-> <<"ERROR">>, threw |-> FALSE]
    ELSE IF fault = "pagination" /\ hasMore(nextCursor)
    THEN [stats |-> recordLatency(recordSuccess(st), latencyMs),
          logs |-> <<"THREAD_SUCCESS", "ERROR">>, threw |-> FALSE]
    ELSE [stats |-> recordThreadMetrics(st, nextCursor, latencyMs).stats,
          logs |-> recordThreadMetrics(st, nextCursor, latencyMs).logs,
          threw |-> FALSE]

\* The catch block of getThreadReplies: the inner try runs up to the call
\* that throws, the inner catch logs the exception, then the original error
\* is logged and thrown
ThreadFailureUnder(fault, error, st) ==
    LET plain == ThreadFailureOf(error, st)
        categoryLogs == SelectSeq(plain.logs,
                                  LAMBDA l : l \in {"RATE_LIMIT_ERROR", "AUTH_ERROR",
                                                    "API_ERROR"})
    IN  IF fault = "category" /\ categoryLogs # <<>>
        THEN [result |-> ThreadThrown(error, "ok"),
              stats |-> st,
              logs |-> <<"ERROR", "ERROR">>]
        ELSE IF fault = "failure"
        THEN [result |-> ThreadThrown(error, "ok"),
              stats |-> IF Len(categoryLogs) > 0 /\ Head(categoryLogs) = "RATE_LIMIT_ERROR"
                        THEN recordRateLimitEvent(st) ELSE st,
              logs |-> categoryLogs \o <<"ERROR", "ERROR">>]
        ELSE plain

\* The try block of getThreadReplies after the page has arrived; an
\* exception that leaves recordThreadMetrics is caught by the catch block
ThreadResultUnder(fault, req, page, st, latencyMs) ==
    LET m == recordThreadMetricsUnder(fault, st, page.next_cursor, latencyMs)
    IN  IF m.threw
        THEN ThreadFailureUnder("none", LoggingFailed, m.stats)
        ELSE [result |-> ThreadResultOf(req, page, st, latencyMs).result,
              stats |-> m.stats,
              logs |-> m.logs]

\* Requests of the runs with logging faults
FaultRequests == {req \in ThreadRequests : ~req.limit.def /\ ~req.cursor.def}

\* slackClient.conversationsReplies settles; getThreadReplies runs to its end
\* while the logging call named by fault throws.
RepliesPageSettlesUnder(page, latencyMs, fault) ==
    /\ thrPc = "fetching"
    /\ thrPage' = page
    /\ thrPc' = "done"
    /\ LET out == IF page.kind = "thrown"
                  THEN ThreadFailureUnder(fault, page.error, stats)
                  ELSE ThreadResultUnder(fault, thrReq, page, stats, latencyMs)
       IN  /\ thrResult' = out.result
           /\ stats' = out.stats
           /\ UNCHANGED <<requests, lookup, server>>
           /\ thrEvents' = thrEvents \o out.logs
    /\ UNCHANGED <<thrReq, thrCalls>>
    /\ UNCHANGED <<gwVars, svcVars>>

ThreadNextUnderFaults ==
    \/ \E req \in FaultRequests : getThreadReplies(req)
    \/ \E page \in ThreadPages, latencyMs \in LatencySamples, fault \in ThreadFaults :
          RepliesPageSettlesUnder(page, latencyMs, fault)

(***************************************************************************)
(* Requests in flight on one LoggingService / MetricsService               *)
(***************************************************************************)
MaxInFlight == 2

\* Upstream outcomes of the attempts of the requests in flight
InFlightOutcomes ==
    { Response(TRUE, NoError, NoStatus, Absent),
      Response(FALSE, ERROR_CODE_RATELIMITED, NoStatus, Absent),
      Response(FALSE, "channel_not_found", NoStatus, Absent),
      Thrown({ERROR_CODE_ECONNRESET}, "slack_webapi_request_error", NoStatus) }

\* RecordedAll with the counter read before the await and written after it:
\* the update of another request in between is overwritten
RECURSIVE RecordedAll_StaleRead(_, _)
RecordedAll_StaleRead(st, logs) ==
    IF logs = <<>> THEN st
    ELSE LET kind == Head(logs)
             stale == [st EXCEPT !.totalRequests = 0, !.successfulRequests = 0,
                                 !.failedRequests = 0, !.rateLimitEvents = 0,
                                 !.paginationEvents = 0]
             next == IF kind \in {"SEARCH_SUCCESS"} THEN recordSuccess(stale)
                     ELSE IF kind = "THREAD_SUCCESS" THEN recordLatency(recordSuccess(stale), 12)
                     ELSE IF kind \in {"SEARCH_FAILURE", "THREAD_FAILURE"} THEN recordFailure(stale)
                     ELSE IF kind = "RATE_LIMIT_ERROR" THEN recordRateLimitEvent(stale)
                     ELSE IF kind = "THREAD_PAGINATION" THEN recordPaginationEvent(stale)
                     ELSE st
         IN  RecordedAll_StaleRead(next, Tail(logs))

\* The MetricsService calls made by a sequence of LoggingService calls; each
\* is a synchronous increment of the shared counters
RECURSIVE RecordedAll(_, _)
RecordedAll(st, logs) ==
    IF logs = <<>> THEN st
    ELSE LET kind == Head(logs)
             next == IF kind \in {"SEARCH_SUCCESS"} THEN recordSuccess(st)
                     ELSE IF kind = "THREAD_SUCCESS" THEN recordLatency(recordSuccess(st), 12)
                     ELSE IF kind \in {"SEARCH_FAILURE", "THREAD_FAILURE"} THEN recordFailure(st)
                     ELSE IF kind = "RATE_LIMIT_ERROR" THEN recordRateLimitEvent(st)
                     ELSE IF kind = "THREAD_PAGINATION" THEN recordPaginationEvent(st)
                     ELSE st
         IN  RecordedAll(next, Tail(logs))

\* Events a request has emitted so far, counted per kind, after it made the
\* LoggingService calls `logs`
Emitted(before, logs) ==
    LET count(kinds) == Cardinality({i \in 1..Len(logs) : logs[i] \in kinds})
    IN  [successes |-> before.successes + count({"SEARCH_SUCCESS", "THREAD_SUCCESS"}),
         failures |-> before.failures + count({"SEARCH_FAILURE", "THREAD_FAILURE"}),
         rateLimits |-> before.rateLimits + count({"RATE_LIMIT_ERROR"}),
         paginations |-> before.paginations + count({"THREAD_PAGINATION"})]

ConcurrentInit ==
    requests = [r \in 1..MaxInFlight |->
                  [pc |-> "idle", op |-> None, attempt |-> 0, logsAfterWait |-> <<>>,
                   emitted |-> [successes |-> 0, failures |-> 0, rateLimits |-> 0,
                                paginations |-> 0]]]

\* What the service logs once the gateway call of a request has thrown
FailureLogs(op, error) ==
    IF op = "search" THEN <<"SEARCH_FAILURE">>
    ELSE ThreadFailureOf(error.message, NoStats).logs

\* A searchMessages (unscoped) or getThreadReplies call starts and runs up to
\* its first await, the upstream request of attempt 0.
BeginRequest(r, op) ==
    /\ requests[r].pc = "idle"
    /\ requests' = [requests EXCEPT ![r].pc = "upstream", ![r].op = op]
    /\ UNCHANGED <<stats, lookup, server>>
    /\ UNCHANGED <<gwVars, svcVars, thrVars>>

\* The upstream request of request r settles: the gateway and the service run
\* without suspension until the request returns, throws or awaits a timer.
RequestSettles(r, o, nextCursor) ==
    /\ requests[r].pc = "upstream"
    /\ LET req == requests[r]
           resp == IF o.form = "response"
                   THEN handleSearchResponse(o, req.attempt)
                   ELSE [threw |-> TRUE, error |-> UpstreamError(o), logs |-> <<>>]
           h == handleSearchError(resp.error, req.attempt)
           gwLogs == IF resp.threw
                     THEN [i \in 1..Len(resp.logs \o h.logs) |-> (resp.logs \o h.logs)[i].kind]
                     ELSE <<>>
           logs == IF ~resp.threw
                   THEN IF req.op = "search" THEN <<"SEARCH_SUCCESS">>
                        ELSE recordThreadMetrics(NoStats, nextCursor, 12).logs
                   ELSE IF h.retry THEN gwLogs
                   ELSE gwLogs \o FailureLogs(req.op, h.error)
       IN  /\ stats' = RecordedAll(stats, logs)
           /\ UNCHANGED <<lookup, server>>
           /\ requests' = [requests EXCEPT
                  ![r].pc = IF resp.threw /\ h.retry THEN "waiting" ELSE "done",
                  ![r].logsAfterWait = IF resp.threw /\ h.retry
                                       THEN [i \in 1..Len(h.logsAfterWait) |->
                                                h.logsAfterWait[i].kind]
                                       ELSE <<>>,
                  ![r].emitted = Emitted(req.emitted, logs)]
    /\ UNCHANGED <<gwVars, svcVars, thrVars>>

\* The backoff timer of request r fires: the handler writes its log and the
\* loop issues the next upstream request, or gives up after the last attempt.
RequestWaitElapsed(r) ==
    /\ requests[r].pc = "waiting"
    /\ LET req == requests[r]
           over == req.attempt + 1 > MAX_RETRIES
           logs == req.logsAfterWait
                   \o (IF over THEN FailureLogs(req.op, PlainError({MSG_CALL_FAILED}))
                       ELSE <<>>)
       IN  /\ stats' = RecordedAll(stats, logs)
           /\ UNCHANGED <<lookup, server>>
           /\ requests' = [requests EXCEPT
                  ![r].pc = IF over THEN "done" ELSE "upstream",
                  ![r].attempt = req.attempt + 1,
                  ![r].logsAfterWait = <<>>,
                  ![r].emitted = Emitted(req.emitted, logs)]
    /\ UNCHANGED <<gwVars, svcVars, thrVars>>

ConcurrentNext ==
    \/ \E r \in 1..MaxInFlight, op \in {"search", "replies"} : BeginRequest(r, op)
    \/ \E r \in 1..MaxInFlight, o \in InFlightOutcomes, nextCursor \in {NoCursor, Cursor("c1")} :
          RequestSettles(r, o, nextCursor)
    \/ \E r \in 1..MaxInFlight : RequestWaitElapsed(r)

(***************************************************************************)
(* SlackAPIClient.channelName                                              *)
(***************************************************************************)
\* channelName is called on an initialised client: it issues the one
\* conversations.info request and awaits it.
channelNameStarts(channelId) ==
    /\ lookup.pc = "idle"
    /\ lookup' = [lookup EXCEPT !.pc = "inflight", !.channelId = channelId,
                                !.upstreamCalls = 1]
    /\ UNCHANGED <<stats, requests, server>>
    /\ UNCHANGED <<gwVars, svcVars, thrVars>>

\* ChannelInfoSettles that treats a failed request like the search loop does:
\* it waits and asks again
ChannelInfoSettles_Retried(o, channel) ==
    /\ lookup.pc = "inflight"
    /\ LET failed == o.form = "thrown" \/ ~o.ok \/ channel = "no channel"
           detail == IF o.form = "thrown" THEN o.message
                     ELSE IF o.error # NoError THEN {o.error}
                     ELSE {"msg:unknown error"}
       IN  IF failed /\ lookup.upstreamCalls <= MAX_RETRIES
           THEN lookup' = [lookup EXCEPT !.outcome = o,
                                         !.waits = @ + 1,
                                         !.upstreamCalls = @ + 1]
           ELSE IF failed
           THEN lookup' = [lookup EXCEPT
                    !.pc = "done", !.outcome = o,
                    !.events = Append(@, LogEvent("API_ERROR", 0)),
                    !.result = Failed(PlainError({"msg:channel info failed"} \cup detail))]
           ELSE lookup' = [lookup EXCEPT
                    !.pc = "done", !.outcome = o,
                    !.result = Returned(o),
                    !.name = IF channel = "" THEN lookup.channelId ELSE channel]
    /\ UNCHANGED <<stats, requests, server>>
    /\ UNCHANGED <<gwVars, svcVars, thrVars>>

\* The conversations.info request settles with envelope or exception o; the
\* envelope carries no channel record, one without a name, or one with a
\* name.  channelName returns the name (the identifier when the name is
\* empty), or logs the failure once with logAPIError and throws.
ChannelInfoSettles(o, channel) ==
    /\ lookup.pc = "inflight"
    /\ LET failed == o.form = "thrown" \/ ~o.ok \/ channel = "no channel"
           detail == IF o.form = "thrown" THEN o.message
                     ELSE IF o.error # NoError THEN {o.error}
                     ELSE {"msg:unknown error"}
       IN  IF failed
           THEN lookup' = [lookup EXCEPT
                    !.pc = "done", !.outcome = o,
                    !.events = Append(@, LogEvent("API_ERROR", 0)),
                    !.result = Failed(PlainError({"msg:channel info failed"} \cup detail))]
           ELSE lookup' = [lookup EXCEPT
                    !.pc = "done", !.outcome = o,
                    !.result = Returned(o),
                    !.name = IF channel = "" THEN lookup.channelId ELSE channel]
    /\ UNCHANGED <<stats, requests, server>>
    /\ UNCHANGED <<gwVars, svcVars, thrVars>>

ChannelNameNext ==
    \/ \E channelId \in {"C1", "C2", "C3"} : channelNameStarts(channelId)
    \/ \E o \in ResponseOutcomes \cup ThrownOutcomes,
          channel \in {"no channel", "", "general"} : ChannelInfoSettles(o, channel)

(***************************************************************************)
(* McpServer.startServer                                                   *)
(***************************************************************************)
\* process.env as startServer finds it.  A token is a sequence of fragments;
\* the prefixes "xoxb-" and "xoxp-" are one fragment each.
StartupEnvs ==
    [ SLACK_USER_TOKEN :
          {[def |-> FALSE, val |-> <<>>]} \cup
          { Some(t) : t \in { <<>>, <<" ">>, <<"i", "n", "v">>, <<"xoxa-", "1">>,
                              <<" ", "xoxb-", "1">>, <<"xoxb-", " ">>,
                              <<"xoxb-">>, <<"xoxb-", "1">>, <<"xoxp-", "1">>,
                              <<"xoxp-", "1", " ">> } },
      SLACK_TEAM_ID : {[def |-> FALSE, val |-> ""], Some("T1")},
      SLACK_CHANNEL_IDS : {[def |-> FALSE, val |-> <<>>], Some(<<"C1">>), Some(<<"C1", "C2">>)} ]

StartupInit ==
    server = [pc |-> "idle",
              env |-> [SLACK_USER_TOKEN |-> [def |-> FALSE, val |-> <<>>],
                       SLACK_TEAM_ID |-> [def |-> FALSE, val |-> ""],
                       SLACK_CHANNEL_IDS |-> [def |-> FALSE, val |-> <<>>]], steps |-> <<>>, configSet |-> FALSE,
              clientInitialised |-> FALSE, tools |-> {}, transport |-> "null",
              result |-> [status |-> "none", error |-> "none"]]

\* startServer that registers the tools before it initialises the services
startServer_RegisterFirst(env) ==
    /\ server.pc = "idle"
    /\ LET slackUserToken == IF env.SLACK_USER_TOKEN.def THEN env.SLACK_USER_TOKEN.val
                             ELSE <<>>
           validFormat == /\ slackUserToken # <<>>
                          /\ Head(slackUserToken) \in {"xoxb-", "xoxp-"}
       IN  IF IsBlank(slackUserToken)
           THEN server' = [server EXCEPT
                    !.pc = "done", !.env = env,
                    !.steps = <<"loadConfig", "validateConfig">>,
                    !.result = [status |-> "rejected", error |-> "ConfigError"]]
           ELSE IF ~validFormat
           THEN server' = [server EXCEPT
                    !.pc = "done", !.env = env,
                    !.steps = <<"loadConfig", "validateConfig", "registerTools",
                                "initializeClient">>,
                    !.configSet = TRUE,
                    !.tools = {"search_messages", "get_thread_replies"},
                    !.result = [status |-> "rejected", error |-> "client initialisation"]]
           ELSE server' = [server EXCEPT
                    !.pc = "connecting", !.env = env,
                    !.steps = <<"loadConfig", "validateConfig", "registerTools",
                                "initializeClient", "connect">>,
                    !.configSet = TRUE,
                    !.clientInitialised = TRUE,
                    !.tools = {"search_messages", "get_thread_replies"},
                    !.transport = "stdio"]
    /\ UNCHANGED <<stats, requests, lookup>>
    /\ UNCHANGED <<gwVars, svcVars, thrVars>>

\* startServer up to its only await: loadAndValidateConfig, initializeServices,
\* registerTools, and connectTransport up to sdkServer.connect.  A step that
\* throws ends the call: the catch block re-throws the error.
startServer(env) ==
    /\ server.pc = "idle"
    /\ LET slackUserToken == IF env.SLACK_USER_TOKEN.def THEN env.SLACK_USER_TOKEN.val
                             ELSE <<>>
           validFormat == /\ slackUserToken # <<>>
                          /\ Head(slackUserToken) \in {"xoxb-", "xoxp-"}
       IN  IF IsBlank(slackUserToken)
           THEN server' = [server EXCEPT
                    !.pc = "done", !.env = env,
                    !.steps = <<"loadConfig", "validateConfig">>,
                    !.result = [status |-> "rejected", error |-> "ConfigError"]]
           ELSE IF ~validFormat
           THEN server' = [server EXCEPT
                    !.pc = "done", !.env = env,
                    !.steps = <<"loadConfig", "validateConfig", "initializeClient">>,
                    !.configSet = TRUE,
                    !.result = [status |-> "rejected", error |-> "client initialisation"]]
           ELSE server' = [server EXCEPT
                    !.pc = "connecting", !.env = env,
                    !.steps = <<"loadConfig", "validateConfig", "initializeClient",
                                "registerTools", "connect">>,
                    !.configSet = TRUE,
                    !.clientInitialised = TRUE,
                    !.tools = {"search_messages", "get_thread_replies"},
                    !.transport = "stdio"]
    /\ UNCHANGED <<stats, requests, lookup>>
    /\ UNCHANGED <<gwVars, svcVars, thrVars>>

\* sdkServer.connect settles: startServer resolves, or rejects with the
\* error of the transport.
ConnectSettles(connected) ==
    /\ server.pc = "connecting"
    /\ server' = [server EXCEPT
           !.pc = "done",
           !.result = IF connected THEN [status |-> "resolved", error |-> "none"]
                      ELSE [status |-> "rejected", error |-> "connect"]]
    /\ UNCHANGED <<stats, requests, lookup>>
    /\ UNCHANGED <<gwVars, svcVars, thrVars>>

StartupNext ==
    \/ \E env \in StartupEnvs : startServer(env)
    \/ \E connected \in BOOLEAN : ConnectSettles(connected)

(***************************************************************************)
(* Specifications                                                          *)
(***************************************************************************)
Init == GatewayInit /\ SearchInit /\ ThreadInit /\ MetricsInit /\ ConcurrentInit
        /\ StartupInit

SpecGateway == Init /\ [][GatewayNext]_vars

SpecSearch == Init /\ [][SearchNext]_vars

SpecThread == Init /\ [][ThreadNext]_vars

SpecThreadFaulty == Init /\ [][ThreadNextUnderFaults]_vars

SpecConcurrent == Init /\ [][ConcurrentNext]_vars

SpecStartup == Init /\ [][StartupNext]_vars

SpecChannelName == Init /\ [][ChannelNameNext]_vars

SpecMetrics == Init /\ [][MetricsNext]_vars

\* The upstream request of the attempt in flight resolves or rejects
UpstreamSettles ==
    \/ \E o \in ResponseOutcomes : AttemptReturns(o)
    \/ \E o \in ThrownOutcomes : AttemptThrows(o)

\* The gateway when every upstream request settles and every timer fires
SpecGatewayLive ==
    Init /\ [][GatewayNext]_vars /\ WF_vars(UpstreamSettles) /\ WF_vars(WaitElapsed)

Next ==
    GatewayNext \/ SearchNext \/ ThreadNext \/ ThreadNextUnderFaults \/ ConcurrentNext
        \/ ChannelNameNext \/ StartupNext \/ MetricsNext

Spec == Init /\ [][Next]_vars

(***************************************************************************)
(* Properties of the gateway (SpecGateway)                                 *)
(***************************************************************************)
Retryable == {"ratelimit", "connectivity"}

AuthenticationSignalled(o) ==
    \/ /\ o.form = "response"
       /\ ~o.ok
       /\ o.error \in {"invalid_auth", "invalid_token", "account_inactive", "token_revoked"}
       /\ o.statusCode # 429
    \/ /\ o.form = "thrown"
       /\ o.message \cap {"invalid_auth", "invalid_token", "account_inactive",
                          "token_revoked"} # {}

\* C2: an attempt classified as authentication (first or after retries, in a
\* response or in a thrown error) ends the call at once with an
\* Authentication failure: no wait is started and no further upstream
\* attempt is made.
C2_AuthFailsImmediately ==
    (Len(handled) >= 1 /\ AuthenticationSignalled(outcome)) =>
        /\ gwPc = "done"
        /\ gwResult.status = "thrown"
        /\ "msg:authentication failed" \in gwResult.message
        /\ pending.delayMs = 0
        /\ Len(waits) = Len(handled) - 1
        /\ upstreamCalls = Len(handled)

\* An authentication response on the third attempt, after two retries.
C2_Witness ==
    /\ AuthenticationSignalled(outcome)
    /\ outcome.form = "response"
    /\ Len(handled) = 3
    /\ gwPc = "done"
    /\ gwResult.status = "thrown"

\* The delay the documentation promises for a rate-limited attempt n:
\* the retry-after value in milliseconds when one is supplied as a
\* non-negative integer, 1000 * 2^n otherwise.
SuppliedSeconds(h) ==
    IF h.kind = "string" /\ h.val # <<>> /\ \A i \in 1..Len(h.val) : IsDigit(h.val[i])
    THEN [given |-> TRUE, seconds |-> DigitsToNat(h.val, 0)]
    ELSE IF h.kind = "array" /\ Len(h.val) > 0 /\ h.val[1] # <<>>
            /\ \A i \in 1..Len(h.val[1]) : IsDigit(h.val[1][i])
    THEN [given |-> TRUE, seconds |-> DigitsToNat(h.val[1], 0)]
    ELSE [given |-> FALSE, seconds |-> 0]

DoublingDelay(n) == CASE n = 0 -> 1000 [] n = 1 -> 2000 [] n = 2 -> 4000 [] OTHER -> 8000

\* C3: when attempt n < 3 is rate-limited, the wait before attempt n+1 is
\* retryAfter * 1000 ms for every non-negative integer retry-after value
\* supplied (0 included), and 1000 * 2^n ms only when none is supplied or it
\* is not a number.
C3_RetryAfterDelay ==
    (gwPc = "waiting" /\ handled[Len(handled)] = "ratelimit") =>
        pending.delayMs =
            IF SuppliedSeconds(outcome.retryAfter).given
            THEN SuppliedSeconds(outcome.retryAfter).seconds * 1000
            ELSE DoublingDelay(attempt)

\* C4: when all 4 attempts are rate-limited (by response or by thrown 429),
\* the call fails with a rate-limit failure and a rate-limit event is
\* recorded for the 4th attempt.
C4_ExhaustedRateLimit ==
    (gwPc = "done" /\ Len(handled) = 4 /\ \A k \in 1..4 : handled[k] = "ratelimit") =>
        /\ gwResult.status = "thrown"
        /\ "msg:rate limit reached, retry ceiling reached" \in gwResult.message
        /\ \E i \in 1..Len(events) :
               events[i].kind = "RATE_LIMIT_ERROR" /\ events[i].retryAttempt = 4

\* The upstream outcome is a connectivity error: a thrown error that names
\* ECONNREFUSED, ECONNRESET, ENOTFOUND or ETIMEDOUT in its error code or in
\* its text, or whose text says timeout, and that carries neither a
\* credential code nor a throttling signal.
ConnectivitySignalled(o) ==
    /\ o.form = "thrown"
    /\ \/ o.code \in {"ECONNREFUSED", "ECONNRESET", "ENOTFOUND", "ETIMEDOUT"}
       \/ o.message \cap {"ECONNREFUSED", "ECONNRESET", "ENOTFOUND", "ETIMEDOUT",
                          "timeout"} # {}
    /\ o.message \cap {"invalid_auth", "invalid_token", "account_inactive",
                       "token_revoked", "ratelimited", "rate_limited"} = {}
    /\ o.statusCode # 429

\* What follows the last handled attempt when it is treated as a
\* connectivity error: a wait of 1000 * 2^n ms and attempt n+1 while n < 3,
\* a Connectivity failure without a further wait on the 4th attempt.
BackoffThenRetryOrFail ==
    /\ gwPc = "waiting" =>
          /\ attempt < 3
          /\ attempt = Len(handled) - 1
          /\ pending.delayMs = DoublingDelay(attempt)
    /\ gwPc = "inflight" =>
          /\ attempt = Len(handled)
          /\ upstreamCalls = attempt + 1
          /\ Len(waits) = attempt
          /\ waits[attempt] = DoublingDelay(attempt - 1)
    /\ gwPc = "done" =>
          /\ Len(handled) = 4
          /\ gwResult.status = "thrown"
          /\ "msg:connection failed" \in gwResult.message
          /\ Len(waits) = 3
          /\ pending.delayMs = 0
    /\ gwPc \in {"waiting", "inflight", "done"}

\* C5: a connectivity error (ECONNREFUSED, ECONNRESET, ENOTFOUND, ETIMEDOUT,
\* timeout) on attempt n < 3 is followed by a wait of exactly 1000 * 2^n ms
\* and then by attempt n+1; on the 4th attempt it makes the call fail with a
\* Connectivity failure without a further wait.
C5_ConnectivityBackoff ==
    (Len(handled) >= 1 /\ ConnectivitySignalled(outcome)) => BackoffThenRetryOrFail

\* The same behaviour restricted to the errors isConnectionError accepts:
\* the four names as error code, and ECONNREFUSED, ENOTFOUND, ETIMEDOUT or
\* timeout in the text.
RecognisedConnectivityBackoff ==
    ( /\ Len(handled) >= 1
      /\ ConnectivitySignalled(outcome)
      /\ \/ outcome.code \in {"ECONNREFUSED", "ECONNRESET", "ENOTFOUND", "ETIMEDOUT"}
         \/ outcome.message \cap {"ECONNREFUSED", "ENOTFOUND", "ETIMEDOUT",
                                  "timeout"} # {} )
    => BackoffThenRetryOrFail

\* Four connectivity errors in a row: waits of 1000, 2000 and 4000 ms, then failure.
FourConnectivityErrors ==
    /\ gwPc = "done"
    /\ ConnectivitySignalled(outcome)
    /\ \A k \in 1..Len(handled) : handled[k] = "connectivity"
    /\ waits = <<1000, 2000, 4000>>
    /\ "msg:connection failed" \in gwResult.message


(***************************************************************************)
(* Properties of the search service (SpecSearch)                           *)
(***************************************************************************)
\* Empty or made of blanks only
AllBlank(str) == \A i \in 1..Len(str) : str[i] = " "

\* t is str without its leading and trailing blanks
IsTrimOf(t, str) ==
    /\ t # <<>> => (t[1] # " " /\ t[Len(t)] # " ")
    /\ \E a \in 0..Len(str) :
          /\ a + Len(t) <= Len(str)
          /\ \A i \in 1..a : str[i] = " "
          /\ SubSeq(str, a + 1, a + Len(t)) = t
          /\ \A i \in (a + Len(t) + 1)..Len(str) : str[i] = " "

SomeIdBlank == options.channelIds.def /\
               \E i \in 1..Len(options.channelIds.ids) : AllBlank(options.channelIds.ids[i])

\* C6: an empty or whitespace-only query, or an empty or whitespace-only
\* channel identifier, makes searchMessages fail with a validation error
\* before any channel-name lookup and any upstream search.
C6_ValidationBeforeUpstream ==
    (svcPc # "idle" /\ (AllBlank(options.query) \/ SomeIdBlank)) =>
        /\ svcPc = "done"
        /\ svcResult.status = "thrown"
        /\ svcResult.error \in {"empty query", "invalid channel id"}
        /\ lookupCalls = <<>>
        /\ searchCalls = <<>>

\* A good query with one valid and one whitespace-only identifier is rejected.
C6_Witness ==
    /\ svcPc = "done"
    /\ ~AllBlank(options.query)
    /\ SomeIdBlank
    /\ \E i \in 1..Len(options.channelIds.ids) : ~AllBlank(options.channelIds.ids[i])
    /\ svcResult.error = "invalid channel id"
    /\ searchCalls = <<>>

NoIdsSupplied == ~options.channelIds.def \/ options.channelIds.ids = <<>>

\* C7: a non-empty query without channel identifiers issues exactly one
\* upstream search: the trimmed query without in: clause, with the request's
\* maxResultCount and teamId.
C7_UnscopedSingleCall ==
    (svcPc # "idle" /\ ~AllBlank(options.query) /\ NoIdsSupplied) =>
        /\ Len(searchCalls) = 1
        /\ IsTrimOf(searchCalls[1].query, options.query)
        /\ \A i \in 1..Len(searchCalls[1].query) : searchCalls[1].query[i] # "in:"
        /\ searchCalls[1].maxResultCount = options.maxResultCount
        /\ searchCalls[1].teamId = options.teamId
        /\ lookupCalls = <<>>

\* A padded query with maxResultCount and teamId, answered by upstream.
C7_Witness ==
    /\ svcPc = "done"
    /\ NoIdsSupplied
    /\ options.query = <<" ", "d", " ", "e", " ">>
    /\ options.maxResultCount.def
    /\ options.teamId = "T1"
    /\ searchCalls[1].query = <<"d", " ", "e">>
    /\ svcResult.status = "returned"

LookupsSettled ==
    /\ Len(lookups) >= 1
    /\ \A i \in 1..Len(lookups) : lookups[i].status # "pending"

FulfilledLookups == {i \in 1..Len(lookups) : lookups[i].status = "fulfilled"}

\* The k-th search is the trimmed query followed by " in:<name>"
IsScopedQuery(q, name) ==
    /\ Len(q) >= 2 + Len(name)
    /\ IsTrimOf(SubSeq(q, 1, Len(q) - 2 - Len(name)), options.query)
    /\ SubSeq(q, Len(q) - 1 - Len(name), Len(q)) = <<" ", "in:">> \o name

\* C8: when at least one identifier resolves, there is exactly one upstream
\* search per resolved name (trimmed query + " in:<name>"), none for the
\* identifiers that failed, and no unscoped search.
C8_OneSearchPerResolvedName ==
    (LookupsSettled /\ FulfilledLookups # {}) =>
        /\ Len(searchCalls) = Cardinality(FulfilledLookups)
        /\ \A i \in FulfilledLookups :
              IsScopedQuery(searchCalls[Cardinality({j \in FulfilledLookups : j <= i})].query,
                            lookups[i].value)

\* Two identifiers, the first fails to resolve: one search, for the second.
C8_Witness ==
    /\ LookupsSettled
    /\ Len(lookups) = 2
    /\ lookups[1].status = "rejected"
    /\ lookups[2].status = "fulfilled"
    /\ Len(searchCalls) = 1
    /\ svcPc = "done"

AllLookupsRejected ==
    /\ Len(lookups) >= 1
    /\ \A i \in 1..Len(lookups) : lookups[i].status = "rejected"

WellFormed(r) == r.kind = "response" /\ r.isSuccess /\ r.hasMessages /\ r.matchesIsArray

RECURSIVE SumFn(_, _)
SumFn(f, S) ==
    IF S = {} THEN 0
    ELSE LET x == CHOOSE x \in S : TRUE IN f[x] + SumFn(f, S \ {x})

Occurrences(msgs, text) == Cardinality({i \in 1..Len(msgs) : msgs[i].text = text})

Survivors == {j \in 1..Len(responses) : WellFormed(responses[j])}

UpstreamTexts ==
    UNION {{responses[j].matches[i].text : i \in 1..Len(responses[j].matches)} :
             j \in 1..Len(responses)}

FanoutDone == svcPc = "done" /\ LookupsSettled /\ FulfilledLookups # {}

\* C10: in a fan-out search a per-channel search that throws or returns a
\* structurally invalid envelope does not abort the request: a result is
\* returned, built from exactly the surviving responses.
C10_PartialFailureTolerated ==
    FanoutDone =>
        /\ svcResult.status = "returned"
        /\ svcResult.totalResultCount =
              SumFn([j \in Survivors |-> responses[j].totalResultCount], Survivors)
        /\ \A i \in 1..Len(svcResult.messages) : svcResult.messages[i].text \in UpstreamTexts
        /\ \A t \in UpstreamTexts :
              LET fromSurvivors ==
                      SumFn([j \in Survivors |-> Occurrences(responses[j].matches, t)],
                            Survivors)
              IN  IF options.maxResultCount.def
                  THEN Occurrences(svcResult.messages, t) <= fromSurvivors
                  ELSE Occurrences(svcResult.messages, t) = fromSurvivors

\* Two channels: one search throws, the other returns three messages.
C10_Witness ==
    /\ FanoutDone
    /\ Len(responses) = 2
    /\ responses[1].kind = "thrown"
    /\ WellFormed(responses[2])
    /\ Len(responses[2].matches) = 3
    /\ ~options.maxResultCount.def
    /\ Len(svcResult.messages) = 3


(***************************************************************************)
(* Fan-out failure, ordering and the more-results flag (SpecSearch)        *)
(***************************************************************************)
\* C11: in a fan-out search (at least one resolved name), if every
\* per-channel upstream search fails, searchMessages throws instead of
\* returning a result.
C11_AllChannelsFailedFails ==
    (FanoutDone /\ \A j \in 1..Len(responses) : responses[j].kind = "thrown") =>
        svcResult.status = "thrown"

\* The surviving messages in insertion order: channel iteration order, then
\* upstream order within a channel.
Inserted == FlatMapMatches(SelectSeq(responses, WellFormed))

IsPrefix(p, q) == Len(p) <= Len(q) /\ SubSeq(q, 1, Len(p)) = p

ScoreOrZero(m) == IF m.score.def THEN m.score.val ELSE 0

WithScore(msgs, v) == SelectSeq(msgs, LAMBDA m : ScoreOrZero(m) = v)

InsertedScores == {ScoreOrZero(Inserted[i]) : i \in 1..Len(Inserted)}

\* C12: the messages of a fan-out result are in non-increasing score order,
\* a missing score counting as 0, and the messages of equal score keep their
\* insertion order.
C12_SortedByScoreStable ==
    FanoutDone =>
        /\ \A i, j \in 1..Len(svcResult.messages) :
              i < j => ScoreOrZero(svcResult.messages[i]) >= ScoreOrZero(svcResult.messages[j])
        /\ \A v \in InsertedScores :
              /\ IsPrefix(WithScore(svcResult.messages, v), WithScore(Inserted, v))
              /\ ~options.maxResultCount.def =>
                    WithScore(svcResult.messages, v) = WithScore(Inserted, v)

\* Two channels with messages of equal score across and within channels
\* (a missing score and an explicit 0), all of them returned.
C12_Witness ==
    /\ FanoutDone
    /\ ~options.maxResultCount.def
    /\ Len(responses) = 2
    /\ Len(responses[1].matches) = 3
    /\ Len(responses[2].matches) = 2
    /\ WellFormed(responses[1]) /\ WellFormed(responses[2])
    /\ Len(svcResult.messages) = 5
    /\ Len(WithScore(svcResult.messages, 0)) = 3

\* Number of messages obtained from upstream before truncation
ObtainedCount ==
    SumFn([j \in Survivors |-> Len(responses[j].matches)], Survivors)

\* C13: with maxResultCount supplied (unscoped or fan-out), hasMoreResults
\* is true whenever the number of messages obtained from upstream before
\* truncation exceeds maxResultCount, whatever the paging flags say.
C13_MoreResultsWhenOverCount ==
    ( /\ svcPc = "done"
      /\ svcResult.status = "returned"
      /\ options.maxResultCount.def
      /\ ObtainedCount > options.maxResultCount.val )
    => svcResult.hasMoreResults


(***************************************************************************)
(* Properties of getThreadReplies (SpecThread)                             *)
(***************************************************************************)
ThreadReturnedNow == thrPc = "done" /\ thrResult.status = "returned"

\* The message list of the upstream page ([] when it is missing or no array)
UpstreamMessages == IF thrPage.messagesIsArray THEN thrPage.messages ELSE <<>>

\* C14: one getThreadReplies call invokes the gateway's thread-page operation
\* exactly once, also when the page carries a continuation cursor; the
\* upstream cursor is returned as nextCursor and hasMore is true iff the
\* upstream response contains a continuation cursor.
C14_OnePagePerCall ==
    /\ Len(thrCalls) <= 1
    /\ (thrPc = "fetching" \/ thrPage.kind # "none") => Len(thrCalls) = 1
    /\ ThreadReturnedNow =>
          /\ thrResult.nextCursor = thrPage.next_cursor
          /\ thrResult.hasMore <=>
                 (thrPage.next_cursor.def /\ thrPage.next_cursor.val # "")

\* A page with messages and a continuation cursor: still one call.
C14_Witness ==
    /\ ThreadReturnedNow
    /\ thrPage.next_cursor = Cursor("c1")
    /\ Len(thrPage.messages) = 2
    /\ thrResult.hasMore
    /\ thrResult.nextCursor.val = "c1"
    /\ Len(thrCalls) = 1

MatchingThreadTs == {i \in 1..Len(UpstreamMessages) : UpstreamMessages[i].ts = thrReq.threadTs}

TsNumber(m) == parseFloat(m.ts).val

RepliesFor(order) ==
    ThreadResultOf([thrReq EXCEPT !.order = order], thrPage, NoStats, 0).result.replies

ReturnedMessages ==
    (IF thrResult.parent.def THEN <<thrResult.parent.msg>> ELSE <<>>) \o thrResult.replies

C18_ThreadValidation ==
    (thrPc # "idle" /\ (AllBlank(thrReq.channelId) \/ AllBlank(thrReq.threadTs))) =>
        /\ thrPc = "done"
        /\ thrResult.status = "thrown"
        /\ thrResult.validation \in {"channelId missing", "threadTs missing"}
        /\ thrCalls = <<>>
        /\ stats.totalRequests = 0
        /\ stats.successfulRequests = 0
        /\ stats.failedRequests = 0
        /\ stats.latencies = <<>>

\* A good channelId with a whitespace-only threadTs.
C18_Witness ==
    /\ thrPc = "done"
    /\ ~AllBlank(thrReq.channelId)
    /\ thrReq.threadTs = <<" ">>
    /\ thrResult.validation = "threadTs missing"
    /\ thrCalls = <<>>
    /\ stats = NoStats


(***************************************************************************)
(* Envelope validation on the unscoped path (SpecSearch)                   *)
(***************************************************************************)
UnscopedDone == svcPc = "done" /\ Len(responses) = 1 /\ FulfilledLookups = {}

\* C19: in an unscoped search an upstream envelope that does not report
\* success, or whose message list is missing or not an array, makes
\* searchMessages fail with a validation-class error; it is never converted
\* into an empty result.
C19_InvalidEnvelopeFails ==
    ( /\ UnscopedDone
      /\ responses[1].kind = "response"
      /\ \/ ~responses[1].isSuccess
         \/ ~responses[1].hasMessages
         \/ ~responses[1].matchesIsArray )
    => /\ svcResult.status = "thrown"
       /\ svcResult.error \in {"invalid response format", "invalid channel", "search failed"}
       /\ svcResult.messages = <<>>

\* success = true but no message list at all: the request fails.
C19_Witness ==
    /\ UnscopedDone
    /\ responses[1].kind = "response"
    /\ responses[1].isSuccess
    /\ ~responses[1].hasMessages
    /\ svcResult.status = "thrown"
    /\ svcResult.error = "invalid response format"

(***************************************************************************)
(* Properties of MetricsService (SpecMetrics)                              *)
(***************************************************************************)
\* C20: after any sequence of recordings, getStats().successRate equals
\* successfulRequests / totalRequests * 100 rounded to 2 decimal places (the
\* multiple of 0.01 nearest to it), and equals 0 when totalRequests is 0.
C20_SuccessRateRounded ==
    LET rate == getStats(stats).successRate
        exact == stats.successfulRequests * 10000
        off == rate * stats.totalRequests - exact
    IN  IF stats.totalRequests = 0 THEN rate = 0
        ELSE /\ 2 * off <= stats.totalRequests
             /\ 2 * (0 - off) <= stats.totalRequests

\* Two successes in three requests: 66.67.
C20_Witness ==
    /\ stats.successfulRequests = 2
    /\ stats.totalRequests = 3
    /\ getStats(stats).successRate = 6667


(***************************************************************************)
(* Classification, logging and sequencing of the gateway (SpecGateway)     *)
(***************************************************************************)
ThrottlingSignalled(o) ==
    \/ /\ o.form = "response"
       /\ ~o.ok
       /\ (o.error \in {"ratelimited", "rate_limited"} \/ o.statusCode = 429)
    \/ /\ o.form = "thrown"
       /\ (o.message \cap {"ratelimited", "rate_limited"} # {} \/ o.statusCode = 429)

CredentialSignalled(o) ==
    \/ /\ o.form = "response"
       /\ ~o.ok
       /\ o.error \in {"invalid_auth", "invalid_token", "account_inactive", "token_revoked"}
    \/ /\ o.form = "thrown"
       /\ o.message \cap {"invalid_auth", "invalid_token", "account_inactive",
                          "token_revoked"} # {}

TransportSignalled(o) ==
    /\ o.form = "thrown"
    /\ \/ o.code \in {"ECONNREFUSED", "ECONNRESET", "ENOTFOUND", "ETIMEDOUT"}
       \/ o.message \cap {"ECONNREFUSED", "ECONNRESET", "ENOTFOUND", "ETIMEDOUT",
                          "timeout"} # {}

\* The class of an upstream outcome in the documented priority: rate limit,
\* then authentication, then connectivity, then other business error (a
\* success=false response that carries an error code).
ClassOf(o) ==
    IF ThrottlingSignalled(o) THEN "ratelimit"
    ELSE IF CredentialSignalled(o) THEN "authentication"
    ELSE IF TransportSignalled(o) THEN "connectivity"
    ELSE IF o.form = "response" /\ ~o.ok /\ o.error # "no_error" THEN "business"
    ELSE "unclassified"

EventsOfKind(kind) == {i \in 1..Len(events) : events[i].kind = kind}

\* C21: once an attempt is over (the error has propagated or the next attempt
\* has started) the log holds exactly one authentication-error event when the
\* attempt was an authentication error, exactly one rate-limit-error event
\* carrying the attempt count for every rate-limited attempt, and exactly one
\* api-error event when the attempt was a business error.
C21_OneEventPerClassifiedError ==
    LET n == Len(handled)
        rateLimited == {k \in 1..(n - 1) : handled[k] = "ratelimit"}
                       \cup (IF ClassOf(outcome) = "ratelimit" THEN {n} ELSE {})
    IN  (n >= 1 /\ gwPc \in {"inflight", "done"}) =>
            /\ Cardinality(EventsOfKind("AUTH_ERROR"))
                   = (IF ClassOf(outcome) = "authentication" THEN 1 ELSE 0)
            /\ Cardinality(EventsOfKind("RATE_LIMIT_ERROR")) = Cardinality(rateLimited)
            /\ \A k \in rateLimited :
                   \E i \in EventsOfKind("RATE_LIMIT_ERROR") : events[i].retryAttempt = k
            /\ ClassOf(outcome) = "business" =>
                   Cardinality(EventsOfKind("API_ERROR")) = 1


\* C22: an outcome that matches several classes is handled by the first of
\* rate limit, authentication, connectivity, business that it matches, for
\* response envelopes and for thrown errors alike: an outcome with a
\* throttling signal (status 429 included) is never handled as an
\* authentication or connectivity error, and an outcome with a credential
\* code and no throttling signal is handled as an authentication error.
C22_ClassificationPriority ==
    Len(handled) >= 1 =>
        LET last == handled[Len(handled)]
        IN  /\ ThrottlingSignalled(outcome) =>
                  /\ last \notin {"authentication", "connectivity"}
                  /\ gwResult.message
                         \cap {"msg:authentication failed", "msg:connection failed"} = {}
            /\ (CredentialSignalled(outcome) /\ ~ThrottlingSignalled(outcome)) =>
                  last = "authentication"


\* A success=false response whose error code is neither a rate-limit code
\* nor a credential code, and that is not throttled
BusinessResponse(o) ==
    /\ o.form = "response"
    /\ ~o.ok
    /\ o.error \notin {"no_error", "ratelimited", "rate_limited", "invalid_auth",
                       "invalid_token", "account_inactive", "token_revoked"}
    /\ o.statusCode # 429

\* C23: such a response ends the call with a failure right after that
\* attempt: no wait is started, no further upstream attempt is made, and the
\* failure message contains the upstream error code.
C23_BusinessErrorFailsAtOnce ==
    (Len(handled) >= 1 /\ BusinessResponse(outcome)) =>
        /\ gwPc = "done"
        /\ gwResult.status = "thrown"
        /\ outcome.error \in gwResult.message
        /\ pending.delayMs = 0
        /\ upstreamCalls = Len(handled)
        /\ Len(waits) = Len(handled) - 1

\* The same for the error codes whose text holds no connectivity word
PlainBusinessErrorFailsAtOnce ==
    (Len(handled) >= 1 /\ BusinessResponse(outcome) /\ outcome.error # "request_timeout") =>
        /\ gwPc = "done"
        /\ gwResult.status = "thrown"
        /\ outcome.error \in gwResult.message
        /\ upstreamCalls = Len(handled)


\* Upstream attempts issued and not yet finished
InFlight == upstreamCalls - Len(handled)

\* C24: within one gateway call at most one upstream attempt is in flight;
\* none is in flight while a retry delay is awaited; every attempt after the
\* first was preceded by one completed wait; and an attempt starts after a
\* wait only when the whole delay computed for the previous attempt has been
\* awaited.
C24_OneAttemptInFlight ==
    /\ [](/\ InFlight \in {0, 1}
          /\ (InFlight = 1) <=> (gwPc = "inflight")
          /\ upstreamCalls >= 1 => Len(waits) = upstreamCalls - 1)
    /\ [][(upstreamCalls >= 1 /\ upstreamCalls' = upstreamCalls + 1) =>
              /\ gwPc = "waiting"
              /\ Len(handled) = upstreamCalls
              /\ waits' = Append(waits, pending.delayMs)]_vars

\* The third attempt is in flight after a retry-after wait of 30 s and a
\* backoff wait of 2 s.
C24_Witness ==
    /\ gwPc = "inflight"
    /\ upstreamCalls = 3
    /\ Len(handled) = 2
    /\ waits = <<30000, 2000>>


\* C25: provided every upstream request eventually resolves or rejects (and
\* every timer fires), a gateway call that has started eventually completes:
\* it returns or throws, and never loops or waits for ever.
C25_CallCompletes == (gwPc \in {"inflight", "waiting"}) ~> (gwPc = "done")

\* A call that completed with a response on its 4th attempt, after 3 waits.
C25_Witness ==
    /\ gwPc = "done"
    /\ gwResult.status = "returned"
    /\ upstreamCalls = 4
    /\ Len(waits) = 3


(***************************************************************************)
(* Fan-out: concurrency, truncation, totals and events (SpecSearch)        *)
(***************************************************************************)
\* msgs grouped by score, highest score first, each group in the order of msgs
RECURSIVE ByScoreDescending(_, _)
ByScoreDescending(msgs, scores) ==
    IF scores = {} THEN <<>>
    ELSE LET top == CHOOSE v \in scores : \A w \in scores : w <= v
         IN  WithScore(msgs, top) \o ByScoreDescending(msgs, scores \ {top})

\* The full ordered sequence of a fan-out: a function of the responses by
\* channel position only
ExpectedMerged == ByScoreDescending(Inserted, InsertedScores)

\* The names of the fulfilled lookups, in the order of the input identifiers
RECURSIVE NamesInInputOrder(_)
NamesInInputOrder(ls) ==
    IF ls = <<>> THEN <<>>
    ELSE (IF Head(ls).status = "fulfilled" THEN <<Head(ls).value>> ELSE <<>>)
         \o NamesInInputOrder(Tail(ls))

FanoutStarted == svcPc \in {"fanout", "done"} /\ LookupsSettled /\ FulfilledLookups # {}

\* C26: in a fan-out search every per-channel search has been issued before
\* any of them settles, the k-th search is for the k-th resolved name in the
\* order of the input identifiers, and the result (messages,
\* totalResultCount, hasMoreResults) is determined by the responses at their
\* channel positions, whatever the order in which searches and lookups
\* completed.
C26_FanoutOrderIndependent ==
    FanoutStarted =>
        /\ Len(searchCalls) = Cardinality(FulfilledLookups)
        /\ Len(responses) = Len(searchCalls)
        /\ \A k \in 1..Len(searchCalls) :
              IsScopedQuery(searchCalls[k].query, NamesInInputOrder(lookups)[k])
        /\ svcPc = "done" =>
              /\ svcResult.status = "returned"
              /\ IsPrefix(svcResult.messages, ExpectedMerged)
              /\ ~options.maxResultCount.def => svcResult.messages = ExpectedMerged
              /\ svcResult.totalResultCount =
                    SumFn([j \in Survivors |-> responses[j].totalResultCount], Survivors)
              /\ svcResult.hasMoreResults <=>
                    \/ \E j \in Survivors :
                          /\ responses[j].paging.def
                          /\ responses[j].paging.pageNumber < responses[j].paging.totalPageCount
                    \/ /\ options.maxResultCount.def
                       /\ Len(ExpectedMerged) > options.maxResultCount.val

\* Both searches have been issued, the second has settled, the first has not.
C26_Witness ==
    /\ svcPc = "fanout"
    /\ Len(searchCalls) = 2
    /\ responses[1].kind = "pending"
    /\ WellFormed(responses[2])
    /\ Len(responses[2].matches) = 2


\* The full ordered sequence obtained from upstream: the merged, score-ordered
\* sequence of a fan-out, the upstream order of an unscoped search
FullSequence == IF FanoutDone THEN ExpectedMerged ELSE Inserted

\* C27: whenever maxResultCount is supplied (unscoped or fan-out), the
\* returned messages are at most maxResultCount many and are a prefix of the
\* full ordered sequence obtained from upstream.
C27_TruncatedToMaxResultCount ==
    (svcPc = "done" /\ svcResult.status = "returned" /\ options.maxResultCount.def) =>
        /\ Len(svcResult.messages) <= options.maxResultCount.val
        /\ IsPrefix(svcResult.messages, FullSequence)

\* The same for fan-out searches only
FanoutTruncated ==
    (FanoutDone /\ options.maxResultCount.def) =>
        /\ Len(svcResult.messages) <= options.maxResultCount.val
        /\ IsPrefix(svcResult.messages, FullSequence)


\* The total a fan-out over the same responses reports when the request
\* carries the given maxResultCount
TotalFor(maxResultCount) ==
    mergeAndBuildResult(responses, [options EXCEPT !.maxResultCount = maxResultCount])
        .result.totalResultCount

\* C28: in a fan-out search totalResultCount is the sum of the totals
\* reported by exactly the surviving per-channel responses (failed and
\* structurally invalid ones contribute 0), and it is the same with and
\* without maxResultCount truncation.
C28_TotalIsSumOfSurvivors ==
    FanoutDone =>
        /\ svcResult.totalResultCount =
              SumFn([j \in 1..Len(responses) |->
                        IF WellFormed(responses[j]) THEN responses[j].totalResultCount ELSE 0],
                    1..Len(responses))
        /\ svcResult.totalResultCount = TotalFor(Undefined)
        /\ svcResult.totalResultCount = TotalFor(Some(1))

\* Two surviving channels reporting 7 and 2, truncated to one message: 9.
C28_Witness ==
    /\ FanoutDone
    /\ options.maxResultCount = Some(1)
    /\ Len(responses) = 2
    /\ WellFormed(responses[1]) /\ responses[1].totalResultCount = 7
    /\ WellFormed(responses[2]) /\ responses[2].totalResultCount = 2
    /\ Len(svcResult.messages) = 1
    /\ svcResult.totalResultCount = 9


ValidationPassed == svcPc = "done" /\ searchCalls # <<>>

ErrorLogs == Cardinality({i \in 1..Len(svcEvents) : svcEvents[i] = "ERROR"})

ThrownSearches == {j \in 1..Len(responses) : responses[j].kind = "thrown"}

\* C29: a searchMessages call that passed validation records exactly one
\* request-outcome event: one success and no failure when it returns a
\* result (also when per-channel searches failed), one failure and no
\* success when it throws.  A per-channel failure produces an error log and
\* never a failure metric, and nothing is recorded before the call ends.
C29_OneOutcomeEvent ==
    /\ svcPc \in {"resolving", "single", "fanout"} => stats = NoStats
    /\ ValidationPassed =>
          /\ stats.totalRequests = 1
          /\ svcResult.status = "returned" =>
                (stats.successfulRequests = 1 /\ stats.failedRequests = 0)
          /\ svcResult.status = "thrown" =>
                (stats.successfulRequests = 0 /\ stats.failedRequests = 1)
    /\ FanoutStarted =>
          /\ stats.failedRequests = 0
          /\ ErrorLogs >= Cardinality(ThrownSearches)

\* A fan-out over two channels: one search threw, the other one survived;
\* one success is recorded, no failure, and the error is logged.
C29_Witness ==
    /\ FanoutDone
    /\ Len(responses) = 2
    /\ responses[1].kind = "thrown"
    /\ WellFormed(responses[2])
    /\ stats.successfulRequests = 1
    /\ stats.failedRequests = 0
    /\ ErrorLogs = 1


(***************************************************************************)
(* Failure path of getThreadReplies (SpecThread)                           *)
(***************************************************************************)
\* C30: when the gateway's thread-page call fails, getThreadReplies throws
\* that same error, has made exactly one gateway call, and has recorded
\* exactly one failure and no success, latency or pagination event.
C30_ThreadFailureRethrown ==
    (thrPc = "done" /\ thrPage.kind = "thrown") =>
        /\ thrResult.status = "thrown"
        /\ thrResult.error = thrPage.error
        /\ thrResult.replies = <<>>
        /\ Len(thrCalls) = 1
        /\ stats.failedRequests = 1
        /\ stats.totalRequests = 1
        /\ stats.successfulRequests = 0
        /\ stats.latencies = <<>>
        /\ stats.paginationEvents = 0

\* The gateway gave up on a rate-limited thread page: the error is
\* re-thrown, one failure and one rate-limit event are recorded.
C30_Witness ==
    /\ thrPc = "done"
    /\ thrPage.kind = "thrown"
    /\ "ratelimited" \in thrPage.error
    /\ thrResult.status = "thrown"
    /\ "ratelimited" \in thrResult.error
    /\ stats.failedRequests = 1
    /\ stats.rateLimitEvents = 1


ThreadFailedNow == thrPc = "done" /\ thrPage.kind = "thrown"

ThreadLogged(kind) == \E i \in 1..Len(thrEvents) : thrEvents[i] = kind

\* The gateway failed the thread-page call as authentication / as rate limit
FailedAsAuthentication(error) == "msg:authentication failed" \in error

FailedAsRateLimit(error) ==
    \/ "msg:rate limit reached, retry ceiling reached" \in error
    \/ error \cap {"ratelimited", "rate_limited"} # {}

\* C31: when the gateway fails a thread-page call as authentication (with
\* any of invalid_auth, invalid_token, account_inactive, token_revoked),
\* getThreadReplies logs an authentication-error event before re-throwing;
\* when it fails as rate limit, getThreadReplies logs a rate-limit event.
C31_ThreadFailureCategoryLogged ==
    ThreadFailedNow =>
        /\ thrResult.status = "thrown"
        /\ FailedAsAuthentication(thrPage.error) => ThreadLogged("AUTH_ERROR")
        /\ FailedAsRateLimit(thrPage.error) =>
              (ThreadLogged("RATE_LIMIT_ERROR") /\ stats.rateLimitEvents = 1)

\* The same for the credential codes the catch block looks for
RecognisedThreadFailureLogged ==
    ThreadFailedNow =>
        /\ (FailedAsAuthentication(thrPage.error)
            /\ thrPage.error \cap {"invalid_auth", "token_revoked"} # {})
              => ThreadLogged("AUTH_ERROR")
        /\ FailedAsRateLimit(thrPage.error) =>
              (ThreadLogged("RATE_LIMIT_ERROR") /\ stats.rateLimitEvents = 1)


EventsOfKindIn(log, kind) == Cardinality({i \in 1..Len(log) : log[i] = kind})

CarriesContinuationCursor(page) == page.next_cursor.def /\ page.next_cursor.val # ""

\* C33: a successful getThreadReplies call records exactly one success event
\* and one latency sample, and one pagination event exactly when the upstream
\* page carries a continuation cursor.
C33_SuccessEventsRecorded ==
    ThreadReturnedNow =>
        /\ stats.successfulRequests = 1
        /\ stats.totalRequests = 1
        /\ stats.failedRequests = 0
        /\ Len(stats.latencies) = 1
        /\ stats.paginationEvents = (IF CarriesContinuationCursor(thrPage) THEN 1 ELSE 0)
        /\ EventsOfKindIn(thrEvents, "THREAD_SUCCESS") = 1
        /\ EventsOfKindIn(thrEvents, "THREAD_PAGINATION") = stats.paginationEvents

\* A page without continuation cursor was returned and only the success and
\* its latency were recorded.
C33_Witness ==
    /\ ThreadReturnedNow
    /\ ~CarriesContinuationCursor(thrPage)
    /\ thrPage.next_cursor.def
    /\ stats.successfulRequests = 1
    /\ stats.latencies = <<12>>
    /\ stats.paginationEvents = 0


(***************************************************************************)
(* MetricsService counters (SpecMetrics)                                   *)
(***************************************************************************)
RequestCounters(st) == <<st.totalRequests, st.successfulRequests, st.failedRequests>>

\* C34: after any sequence of recordSuccess, recordFailure, recordLatency,
\* recordRateLimitEvent and recordPaginationEvent calls totalRequests equals
\* successfulRequests + failedRequests; recordSuccess and recordFailure each
\* add exactly 1 to totalRequests and to their own counter, and the other
\* three operations leave the three request counters unchanged.
C34_RequestCountersConsistent ==
    /\ [](stats.totalRequests = stats.successfulRequests + stats.failedRequests)
    /\ [][/\ RecordSuccess =>
                RequestCounters(stats') = <<stats.totalRequests + 1,
                                            stats.successfulRequests + 1,
                                            stats.failedRequests>>
          /\ RecordFailure =>
                RequestCounters(stats') = <<stats.totalRequests + 1,
                                            stats.successfulRequests,
                                            stats.failedRequests + 1>>
          /\ ((\E latencyMs \in LatencySamples : RecordLatency(latencyMs))
                \/ RecordRateLimitEvent \/ RecordPaginationEvent) =>
                RequestCounters(stats') = RequestCounters(stats)]_vars

\* Every operation has been called at least once and the counters add up.
C34_Witness ==
    /\ stats.successfulRequests = 2
    /\ stats.failedRequests = 1
    /\ stats.totalRequests = 3
    /\ Len(stats.latencies) = 1
    /\ stats.rateLimitEvents = 1
    /\ stats.paginationEvents = 1


(***************************************************************************)
(* Shared counters under interleaved requests (SpecConcurrent)             *)
(***************************************************************************)
RECURSIVE SumOver(_, _)
SumOver(n, field) ==
    IF n = 0 THEN 0 ELSE requests[n].emitted[field] + SumOver(n - 1, field)

AllFinished == \A r \in 1..MaxInFlight : requests[r].pc = "done"

\* C35: with several search and thread requests in flight on one
\* LoggingService / MetricsService, interleaved at their upstream calls and
\* backoff waits, no counter update is lost: once all have finished,
\* successfulRequests, failedRequests, rateLimitEvents and paginationEvents
\* each equal the number of such events the requests emitted.
C35_NoLostUpdate ==
    AllFinished =>
        /\ stats.successfulRequests = SumOver(MaxInFlight, "successes")
        /\ stats.failedRequests = SumOver(MaxInFlight, "failures")
        /\ stats.rateLimitEvents = SumOver(MaxInFlight, "rateLimits")
        /\ stats.paginationEvents = SumOver(MaxInFlight, "paginations")

\* Two requests overlapped: the first was rate limited and waited while the
\* second ran; one succeeded, one failed, and every event is in the counters.
C35_Witness ==
    /\ AllFinished
    /\ requests[1].attempt >= 1
    /\ requests[1].emitted.rateLimits >= 1
    /\ requests[2].emitted.paginations = 1
    /\ stats.successfulRequests >= 1
    /\ stats.failedRequests >= 1
    /\ stats.rateLimitEvents >= 2


(***************************************************************************)
(* searchMessages with only invalid channel identifiers (SpecSearch)       *)
(***************************************************************************)
AllIdsBlank ==
    /\ options.channelIds.def
    /\ options.channelIds.ids # <<>>
    /\ \A i \in 1..Len(options.channelIds.ids) : AllBlank(options.channelIds.ids[i])

\* C36: when channel identifiers are supplied and all of them are empty or
\* whitespace-only, searchMessages issues a single upstream search over the
\* unscoped trimmed query.
C36_AllInvalidIdsSearchUnscoped ==
    (svcPc # "idle" /\ ~AllBlank(options.query) /\ AllIdsBlank) =>
        /\ Len(searchCalls) = 1
        /\ IsTrimOf(searchCalls[1].query, options.query)
        /\ \A i \in 1..Len(searchCalls[1].query) : searchCalls[1].query[i] # "in:"

\* What the code does with such a request: it is rejected as an invalid
\* channel identifier before any upstream search.
AllInvalidIdsRejected ==
    (svcPc # "idle" /\ ~AllBlank(options.query) /\ AllIdsBlank) =>
        /\ svcPc = "done"
        /\ svcResult.status = "thrown"
        /\ svcResult.error = "invalid channel id"
        /\ searchCalls = <<>>


(***************************************************************************)
(* SlackAPIClient.channelName (SpecChannelName)                            *)
(***************************************************************************)
LookupFailed == lookup.pc = "done" /\ lookup.result.status = "thrown"

StartupOrder == <<"loadConfig", "validateConfig", "initializeClient", "registerTools",
                  "connect">>

TokenOf(env) == IF env.SLACK_USER_TOKEN.def THEN env.SLACK_USER_TOKEN.val ELSE <<>>

TokenMissing(env) == \A i \in 1..Len(TokenOf(env)) : TokenOf(env)[i] = " "

TokenWellFormed(env) ==
    /\ ~TokenMissing(env)
    /\ TokenOf(env)[1] = "xoxb-" \/ TokenOf(env)[1] = "xoxp-"

\* C37: startServer performs its steps in the order load+validate
\* configuration, initialise the Slack client, register the tools, connect
\* the transport; when a step throws (missing or empty SLACK_USER_TOKEN,
\* invalid token format) startServer rejects with that error and no later
\* step runs, so no tool is registered and the transport stays null.
C37_StartupOrder ==
    server.pc # "idle" =>
        /\ \E n \in 0..Len(StartupOrder) : server.steps = SubSeq(StartupOrder, 1, n)
        /\ TokenMissing(server.env) =>
              /\ server.pc = "done"
              /\ server.result = [status |-> "rejected", error |-> "ConfigError"]
              /\ server.steps = SubSeq(StartupOrder, 1, 2)
              /\ server.tools = {}
              /\ server.transport = "null"
        /\ (~TokenMissing(server.env) /\ ~TokenWellFormed(server.env)) =>
              /\ server.pc = "done"
              /\ server.result = [status |-> "rejected", error |-> "client initialisation"]
              /\ server.steps = SubSeq(StartupOrder, 1, 3)
              /\ server.tools = {}
              /\ server.transport = "null"
        /\ server.result.status = "resolved" =>
              /\ server.steps = StartupOrder
              /\ server.tools # {}
              /\ server.transport # "null"

\* A token that is set but has a leading blank before its prefix: the
\* configuration passes, the client initialisation throws, nothing is
\* registered or connected.
C37_Witness ==
    /\ server.pc = "done"
    /\ server.env.SLACK_USER_TOKEN = Some(<<" ", "xoxb-", "1">>)
    /\ server.result.status = "rejected"
    /\ server.steps = <<"loadConfig", "validateConfig", "initializeClient">>
    /\ server.tools = {}
    /\ server.transport = "null"


(***************************************************************************)
(* Replies and parent of a thread page (SpecThread)                        *)
(***************************************************************************)
ReplyIndexes == {i \in 1..Len(UpstreamMessages) : UpstreamMessages[i].ts # thrReq.threadTs}

FirstMatching == CHOOSE i \in MatchingThreadTs : \A k \in MatchingThreadTs : i <= k

====
